---------------------------- MODULE Spec2Model ----------------------------
(***************************************************************************)
(* A model of the shell configuration transpiler .shellgen/generate_shell.py *)
(* (manifest merging, validation, guard translation and the main pipeline). *)
(*                                                                         *)
(* Python dicts are modelled as TLA+ functions whose DOMAIN is the set of   *)
(* keys present ("k in d" is  k \in DOMAIN d); lists are sequences.  A call *)
(* that can raise is modelled by a result record: [exc |-> "None", val |-> *)
(* v] for a return and [exc |-> <exception>] for a raise.                  *)
(***************************************************************************)
EXTENDS Integers, Sequences, FiniteSets, TLC

VARIABLES
    \* ---- merge_manifests applied to drawn inputs
    base, extra, third,      \* the input manifests
    merged,                  \* result of merge_manifests(base, extra)
    left, right,             \* results of the two groupings of a three-way merge
    mstep,                   \* "input" | "merged" | "left" | "assoc"
    \* ---- validate_manifest and the generators applied to a drawn manifest
    vmanifest,               \* the input manifest
    verrors,                 \* result of validate_manifest(vmanifest)
    vexc,                    \* per shell generated so far: the exceptions raised
    vstep,                   \* "input" | "validated"
    \* ---- one run of main
    pc,                      \* "start" | "merge" | "mkdirs" | "write" | "ledgers" | "done"
    stdin,                   \* standard input: a terminal, or the lines piped in
    args_sources,            \* the positional arguments
    script_yaml,             \* "file" | "missing": script_dir/shell.yaml on disk
    raw_sources,             \* main's raw_sources, once collected
    target,                  \* --target, "None" when absent
    quiet,                   \* --quiet
    source_files,            \* resolve_sources' result
    nwarn,                   \* warnings raised by resolve_sources
    manifest,                \* the merged manifest
    nloaded,                 \* sources loaded and merged so far
    errors,                  \* validate_manifest's result
    out_dirs,                \* directories that exist under the output root
    out_files,               \* path -> content of the files under the output root
    dir_files,               \* generate_all's dir_files
    generated_files,         \* generate_all's generated_files
    jobs_done,               \* iterations done of generate_all's current loop
    exit_code,               \* "running" | "0" | "1" | "uncaught <exception>"
    prev_run,                \* what the previous generate_all run left and returned
    \* one item through generate_function / generate_module for every shell,
    \* or one package manifest through the package-list generator for every
    \* platform
    rkind,                   \* "functions" | "modules" | "packages"
    ritem,                   \* the item, or the package manifest
    rendered,                \* the results so far, in the order of SHELLS / PLATFORMS
    \* one guard through translate_guard and translate_guard_condition
    gguard,                  \* the guard
    gshell,                  \* the shell
    glines                   \* the three translations, once made

mergeVars == <<base, extra, third, merged, left, right, mstep>>
valVars == <<vmanifest, verrors, vexc, vstep>>
mainVars == <<pc, stdin, args_sources, script_yaml, raw_sources, target, quiet, source_files, nwarn, manifest, nloaded,
              errors, out_dirs, out_files, dir_files, generated_files, jobs_done,
              exit_code, prev_run>>
renderVars == <<rkind, ritem, rendered>>
guardVars == <<gguard, gshell, glines>>

vars == <<mergeVars, valVars, mainVars, renderVars, guardVars>>

-----------------------------------------------------------------------------
(* Bounds of the drawn inputs *)

MaxBase == 3        \* longest list of a base manifest
MaxExtra == 2       \* longest list of an extra manifest
MaxAssoc == 2       \* longest list of the first two manifests of a three-way merge
MaxValFuncs == 2    \* longest functions list of a manifest drawn for validation
MaxNot == 1         \* deepest nesting of 'not' in a drawn guard
MaxGuards == 2      \* longest 'guards' list of a drawn module
MaxBranches == 2    \* longest drawn conditional
MaxSources == 2     \* most source paths given to main
MaxLines == 2       \* most lines of a drawn body text
MaxRenderGuards == 2    \* longest 'guards' list of a module drawn for rendering
MaxRenderBranches == 3  \* longest conditional drawn for rendering
MaxRuns == 2        \* generate_all runs against one target
MaxResolve == 3     \* most paths given to resolve_sources
MaxStdin == 2       \* most lines piped into main
MaxArgs == 2        \* most positional arguments next to piped lines

-----------------------------------------------------------------------------
(* Generic helpers *)

SeqsUpTo(S, n) == UNION {[1..k -> S] : k \in 0..n}

Returned(v) == [exc |-> "None", val |-> v]
Raised(e) == [exc |-> e]
Pending == [exc |-> "pending"]

\* dict.get(key, [])
GetList(d, key) == IF key \in DOMAIN d THEN d[key] ELSE <<>>

-----------------------------------------------------------------------------
(* Manifest merging: merge_manifests *)

ListKeys == {"functions", "modules"}

\* an overridden key moves to the end
SeenSetLastPosition(seen, item) ==
    Append(SelectSeq(seen, LAMBDA s : s.name # item.name), item)

\* a list append in place of the keyed assignment
SeenSetAppendOnly(seen, item) == Append(seen, item)

\* seen[item["name"]] = item on an insertion-ordered dict, kept as the
\* sequence of its values: an existing key keeps its position and takes the
\* new value, a new key is appended.
SeenSet(seen, item) ==
    IF \E i \in 1..Len(seen) : seen[i].name = item.name
    THEN [i \in 1..Len(seen) |->
            IF seen[i].name = item.name THEN item ELSE seen[i]]
    ELSE Append(seen, item)

\* the loop starts one item late
RECURSIVE SeenAfterSkipFirst(_, _)
SeenAfterSkipFirst(items, k) ==
    IF k <= 1 THEN <<>> ELSE SeenSet(SeenAfterSkipFirst(items, k - 1), items[k])

\* the dict `seen` after the loop has consumed the first k items
RECURSIVE SeenAfter(_, _)
SeenAfter(items, k) ==
    IF k = 0 THEN <<>> ELSE SeenSet(SeenAfter(items, k - 1), items[k])

\* list(base.get(key, [])) + list(extra.get(key, []))
MergeInput(b, e, key) == GetList(b, key) \o GetList(e, key)

\* item["name"] raises KeyError on an item without a name
MergeRaises(b, e) ==
    \E key \in ListKeys : \E i \in 1..Len(MergeInput(b, e, key)) :
        "name" \notin DOMAIN MergeInput(b, e, key)[i]

\* the lists are rebuilt from extra alone
MergedExtraOnly(b, e) ==
    [key \in DOMAIN b \cup ListKeys |-> SeenAfter(GetList(e, key), Len(GetList(e, key)))]

\* merged = dict(base); merged[key] = list(seen.values()) for both keys
Merged(b, e) ==
    [key \in DOMAIN b \cup ListKeys |->
        SeenAfter(MergeInput(b, e, key), Len(MergeInput(b, e, key)))]

merge_manifests(b, e) ==
    IF MergeRaises(b, e) THEN Raised("KeyError") ELSE Returned(Merged(b, e))

\* merge_manifests applied to the result of an earlier call (a raise propagates)
MergeInto(r, e) == IF r.exc # "None" THEN r ELSE merge_manifests(r.val, e)
MergeOnto(b, r) == IF r.exc # "None" THEN r ELSE merge_manifests(b, r.val)

-----------------------------------------------------------------------------
(* Shell constants and the guard / predicate tables *)

SHELLS == <<"fish", "zsh", "bash", "pwsh">>
\* SHELL_INDEX, one-based as sequences are
SHELL_INDEX == [fish |-> 1, zsh |-> 2, bash |-> 3, pwsh |-> 4]

\* A template is the sequence of its segments: literal text, a replacement
\* field {name}, or an escaped brace ({{ or }}).
Lit(s) == [k |-> "lit", s |-> s]
Ph(s) == [k |-> "ph", s |-> s]
Esc(s) == [k |-> "esc", s |-> s]

GUARDS ==
    [ command_exists |-> <<
          <<Lit("command -q "), Ph("0"), Lit("; or return 0")>>,
          <<Lit("(( $+commands["), Ph("0"), Lit("] )) || return 0")>>,
          <<Lit("command -v "), Ph("0"), Lit(" &>/dev/null || return 0")>>,
          <<Lit("if (-not (Get-Command '"), Ph("0"), Lit("' -ErrorAction SilentlyContinue)) "), Esc("{"), Lit(" return "), Esc("}")>> >>,
      env_not_set |-> <<
          <<Lit("not set -q "), Ph("0"), Lit("; or return 0")>>,
          <<Lit("[[ -z $"), Ph("0"), Lit(" ]] || return 0")>>,
          <<Lit("[[ -z \"$"), Ph("0"), Lit("\" ]] || return 0")>>,
          <<Lit("if ($env:"), Ph("0"), Lit(") "), Esc("{"), Lit(" return "), Esc("}")>> >>,
      env_set |-> <<
          <<Lit("set -q "), Ph("0"), Lit("; or return 0")>>,
          <<Lit("[[ -n $"), Ph("0"), Lit(" ]] || return 0")>>,
          <<Lit("[[ -n \"$"), Ph("0"), Lit("\" ]] || return 0")>>,
          <<Lit("if (-not $env:"), Ph("0"), Lit(") "), Esc("{"), Lit(" return "), Esc("}")>> >>,
      env_equals |-> <<
          <<Lit("test \"$"), Ph("var"), Lit("\" = \""), Ph("value"), Lit("\"; or return 0")>>,
          <<Lit("[[ \"$"), Ph("var"), Lit("\" == \""), Ph("value"), Lit("\" ]] || return 0")>>,
          <<Lit("[[ \"$"), Ph("var"), Lit("\" == \""), Ph("value"), Lit("\" ]] || return 0")>>,
          <<Lit("if ($env:"), Ph("var"), Lit(" -ne '"), Ph("value"), Lit("') "), Esc("{"), Lit(" return "), Esc("}")>> >>,
      not_env_equals |-> <<
          <<Lit("test \"$"), Ph("var"), Lit("\" != \""), Ph("value"), Lit("\"; or return 0")>>,
          <<Lit("[[ \"$"), Ph("var"), Lit("\" != \""), Ph("value"), Lit("\" ]] || return 0")>>,
          <<Lit("[[ \"$"), Ph("var"), Lit("\" != \""), Ph("value"), Lit("\" ]] || return 0")>>,
          <<Lit("if ($env:"), Ph("var"), Lit(" -eq '"), Ph("value"), Lit("') "), Esc("{"), Lit(" return "), Esc("}")>> >>,
      is_tty |-> <<
          <<Lit("isatty stdin; or return 0")>>,
          <<Lit("[[ -t 0 ]] || return 0")>>,
          <<Lit("[[ -t 0 ]] || return 0")>>,
          <<Lit("if (-not [Environment]::UserInteractive) "), Ph(" return ")>> >>,
      is_interactive |-> <<
          <<Lit("status is-interactive; or return 0")>>,
          <<Lit("[[ -o interactive ]] || return 0")>>,
          <<Lit("[[ $- == *i* ]] || return 0")>>,
          <<Lit("if (-not [Environment]::UserInteractive) "), Ph(" return ")>> >>,
      file_exists |-> <<
          <<Lit("test -f "), Ph("0"), Lit("; or return 0")>>,
          <<Lit("[[ -f "), Ph("0"), Lit(" ]] || return 0")>>,
          <<Lit("[[ -f "), Ph("0"), Lit(" ]] || return 0")>>,
          <<Lit("if (-not (Test-Path '"), Ph("0"), Lit("' -PathType Leaf)) "), Esc("{"), Lit(" return "), Esc("}")>> >>,
      dir_exists |-> <<
          <<Lit("test -d "), Ph("0"), Lit("; or return 0")>>,
          <<Lit("[[ -d "), Ph("0"), Lit(" ]] || return 0")>>,
          <<Lit("[[ -d "), Ph("0"), Lit(" ]] || return 0")>>,
          <<Lit("if (-not (Test-Path '"), Ph("0"), Lit("' -PathType Container)) "), Esc("{"), Lit(" return "), Esc("}")>> >> ]

GUARD_CONDITIONS ==
    [ command_exists |-> <<
          <<Lit("command -q "), Ph("0")>>,
          <<Lit("(( $+commands["), Ph("0"), Lit("] ))")>>,
          <<Lit("command -v "), Ph("0"), Lit(" &>/dev/null")>>,
          <<Lit("(Get-Command '"), Ph("0"), Lit("' -ErrorAction SilentlyContinue)")>> >>,
      env_not_set |-> <<
          <<Lit("not set -q "), Ph("0")>>,
          <<Lit("[[ -z $"), Ph("0"), Lit(" ]]")>>,
          <<Lit("[[ -z \"$"), Ph("0"), Lit("\" ]]")>>,
          <<Lit("(-not $env:"), Ph("0"), Lit(")")>> >>,
      env_set |-> <<
          <<Lit("set -q "), Ph("0")>>,
          <<Lit("[[ -n $"), Ph("0"), Lit(" ]]")>>,
          <<Lit("[[ -n \"$"), Ph("0"), Lit("\" ]]")>>,
          <<Lit("($env:"), Ph("0"), Lit(")")>> >>,
      env_equals |-> <<
          <<Lit("test \"$"), Ph("var"), Lit("\" = \""), Ph("value"), Lit("\"")>>,
          <<Lit("[[ \"$"), Ph("var"), Lit("\" == \""), Ph("value"), Lit("\" ]]")>>,
          <<Lit("[[ \"$"), Ph("var"), Lit("\" == \""), Ph("value"), Lit("\" ]]")>>,
          <<Lit("($env:"), Ph("var"), Lit(" -eq '"), Ph("value"), Lit("')")>> >>,
      not_env_equals |-> <<
          <<Lit("test \"$"), Ph("var"), Lit("\" != \""), Ph("value"), Lit("\"")>>,
          <<Lit("[[ \"$"), Ph("var"), Lit("\" != \""), Ph("value"), Lit("\" ]]")>>,
          <<Lit("[[ \"$"), Ph("var"), Lit("\" != \""), Ph("value"), Lit("\" ]]")>>,
          <<Lit("($env:"), Ph("var"), Lit(" -ne '"), Ph("value"), Lit("')")>> >>,
      is_tty |-> <<
          <<Lit("isatty stdin")>>,
          <<Lit("[[ -t 0 ]]")>>,
          <<Lit("[[ -t 0 ]]")>>,
          <<Lit("[Environment]::UserInteractive")>> >>,
      is_interactive |-> <<
          <<Lit("status is-interactive")>>,
          <<Lit("[[ -o interactive ]]")>>,
          <<Lit("[[ $- == *i* ]]")>>,
          <<Lit("[Environment]::UserInteractive")>> >>,
      file_exists |-> <<
          <<Lit("test -f "), Ph("0")>>,
          <<Lit("[[ -f "), Ph("0"), Lit(" ]]")>>,
          <<Lit("[[ -f "), Ph("0"), Lit(" ]]")>>,
          <<Lit("(Test-Path '"), Ph("0"), Lit("' -PathType Leaf)")>> >>,
      dir_exists |-> <<
          <<Lit("test -d "), Ph("0")>>,
          <<Lit("[[ -d "), Ph("0"), Lit(" ]]")>>,
          <<Lit("[[ -d "), Ph("0"), Lit(" ]]")>>,
          <<Lit("(Test-Path '"), Ph("0"), Lit("' -PathType Container)")>> >> ]

PREDICATES ==
    [ os_is_darwin |-> <<
          "test (uname) = \"Darwin\"",
          "[[ $OSTYPE == *darwin* ]]",
          "[[ $OSTYPE == darwin* ]]",
          "$IsMacOS" >>,
      os_is_linux |-> <<
          "test (uname) = \"Linux\"",
          "[[ $OSTYPE == *linux* ]]",
          "[[ $OSTYPE == linux* ]]",
          "$IsLinux" >>,
      os_is_windows |-> <<
          "string match -q \"Msys\" (uname -o 2>/dev/null; or echo unknown)",
          "[[ $OSTYPE == msys* ]]",
          "[[ $OSTYPE == msys* ]]",
          "$IsWindows" >>,
      arch_is_arm64 |-> <<
          "test (uname -m) = arm64; or test (uname -m) = aarch64",
          "[[ $(uname -m) == (arm64|aarch64) ]]",
          "[[ $(uname -m) == arm64 || $(uname -m) == aarch64 ]]",
          "[Runtime.InteropServices.RuntimeInformation]::OSArchitecture -eq 'Arm64'" >>,
      arch_is_x86_64 |-> <<
          "test (uname -m) = \"x86_64\"",
          "[[ $(uname -m) == x86_64 ]]",
          "[[ $(uname -m) == x86_64 ]]",
          "[Runtime.InteropServices.RuntimeInformation]::OSArchitecture -eq 'X64'" >> ]

\* ALL_GUARD_KEYS = set(GUARDS.keys()) | {"not"}
ALL_GUARD_KEYS == DOMAIN GUARDS \cup {"not"}

BODY_KEYS == {"paths", "aliases", "tool", "body", "env", "source_file",
              "eval_command", "conditional"}

RECURSIVE FlattenSeq(_)
FlattenSeq(ss) == IF ss = <<>> THEN <<>> ELSE Head(ss) \o FlattenSeq(Tail(ss))

RECURSIVE ConcatStr(_)
ConcatStr(ss) == IF ss = <<>> THEN "" ELSE Head(ss) \o ConcatStr(Tail(ss))

-----------------------------------------------------------------------------
(* Values of a manifest.  A value whose Python type matters is tagged:       *)
(*   guard:        [t |-> "str", s], [t |-> "dict", key, value] (key is the  *)
(*                 first key of the mapping, value its value: a guard for    *)
(*                 key "not", else [t |-> "scalar", s] or [t |-> "dict", d]),*)
(*                 [t |-> "emptydict"], [t |-> "other"]                      *)
(*   env:          [t |-> "dict", entries] or [t |-> "other"]                *)
(*   source_file:  [t |-> "str", s], [t |-> "list", items], [t |-> "other"]  *)
(*   eval_command: [t |-> "str", s] or [t |-> "other"]                       *)
(*   conditional:  [t |-> "list", items] or [t |-> "other"]; a branch is     *)
(*                 [t |-> "dict", d] or [t |-> "other"]                      *)

StrGuard(s) == [t |-> "str", s |-> s]
DictGuard(key, value) == [t |-> "dict", key |-> key, value |-> value]
Scalar(s) == [t |-> "scalar", s |-> s]
NotGuard(g) == DictGuard("not", g)
EmptyDictGuard == [t |-> "emptydict"]
OtherValue == [t |-> "other"]

-----------------------------------------------------------------------------
(* Validation: validate_manifest and its helpers.  An error string          *)
(* f"{ctx}: {msg} '{arg}'..." is kept as the record of its parts.            *)

\* the message leaves out what it is about
ErrNoArg(ctx, msg, arg) == [ctx |-> ctx, msg |-> msg, arg |-> ""]

Err(ctx, msg, arg) == [ctx |-> ctx, msg |-> msg, arg |-> arg]

\* isinstance(guard, dict) and next(iter(guard), None) == "not"
IsNot(guard) == guard.t = "dict" /\ guard.key = "not"

RECURSIVE _validate_guard(_, _)
_validate_guard(guard, ctx) ==
    IF guard.t = "str"
    THEN IF guard.s \notin DOMAIN GUARDS
         THEN <<Err(ctx, "unknown string guard", guard.s)>> ELSE <<>>
    ELSE IF guard.t = "dict"
    THEN IF guard.key = "not"
         THEN _validate_guard(guard.value, ctx \o " (inside 'not')")
         ELSE IF guard.key \notin DOMAIN GUARDS
              THEN <<Err(ctx, "unknown guard type", guard.key)>> ELSE <<>>
    ELSE IF guard.t = "emptydict"
    THEN <<Err(ctx, "unknown guard type", "None")>>
    ELSE <<Err(ctx, "invalid guard type", "")>>

_collect_guards(mod) ==
    IF "guards" \in DOMAIN mod THEN mod["guards"]
    ELSE IF "guard" \in DOMAIN mod THEN <<mod["guard"]>>
    ELSE <<>>

_validate_env(env, ctx) ==
    IF env.t # "dict"
    THEN <<Err(ctx, "'env' must be a dict of VAR: value pairs", "")>>
    ELSE FlattenSeq([i \in 1..Len(env.entries) |->
            (IF env.entries[i].ktype # "str"
             THEN <<Err(ctx, "env key must be a string, got", env.entries[i].ktype)>>
             ELSE <<>>)
            \o (IF env.entries[i].vtype \notin {"str", "int", "float", "bool"}
                THEN <<Err(ctx, "env value must be a string or number", env.entries[i].k)>>
                ELSE <<>>)])

_validate_source_file(sf, ctx) ==
    IF sf.t = "str" THEN <<>>
    ELSE IF sf.t = "list"
    THEN FlattenSeq([i \in 1..Len(sf.items) |->
            IF sf.items[i].t # "str"
            THEN <<Err(ctx, "source_file list items must be strings", "")>>
            ELSE <<>>])
    ELSE <<Err(ctx, "'source_file' must be a string or list of strings", "")>>

_validate_conditional_branch_body(branch, ctx) ==
    LET branch_body_keys == BODY_KEYS \ {"conditional"}
    IN IF ~\E k \in branch_body_keys \ {"if", "elif", "else"} : k \in DOMAIN branch
       THEN IF ~\E k \in DOMAIN branch : k \in branch_body_keys
            THEN <<Err(ctx, "conditional branch must have at least one body key", "")>>
            ELSE <<>>
       ELSE <<>>

\* one later branch (i is its zero-based index) of _validate_conditional
_validate_later_branch(branch, i, ctx) ==
    LET bctx == ctx \o " conditional[" \o ToString(i) \o "]"
    IN IF branch.t # "dict" THEN <<Err(bctx, "branch must be a dict", "")>>
       ELSE LET has_elif == "elif" \in DOMAIN branch.d
                has_else == "else" \in DOMAIN branch.d
            IN (IF ~has_elif /\ ~has_else
                THEN <<Err(bctx, "branch must have 'elif' or 'else' key", "")>>
                ELSE <<>>)
               \o (IF has_elif /\ has_else
                   THEN <<Err(bctx, "branch cannot have both 'elif' and 'else'", "")>>
                   ELSE <<>>)
               \o (IF has_elif THEN _validate_guard(branch.d["elif"], bctx) ELSE <<>>)
               \o _validate_conditional_branch_body(branch.d, bctx)

\* the later branches are not looked at
_validate_conditional_first_only(cond, ctx) ==
    IF cond.t # "list" \/ Len(cond.items) = 0
    THEN <<Err(ctx, "'conditional' must be a non-empty list", "")>>
    ELSE LET first == cond.items[1]
         IN IF first.t # "dict" \/ "if" \notin DOMAIN first.d
            THEN <<Err(ctx, "first conditional branch must have an 'if' key", "")>>
            ELSE _validate_guard(first.d["if"], ctx \o " conditional[0]")
                 \o _validate_conditional_branch_body(first.d, ctx \o " conditional[0]")

_validate_conditional(cond, ctx) ==
    IF cond.t # "list" \/ Len(cond.items) = 0
    THEN <<Err(ctx, "'conditional' must be a non-empty list", "")>>
    ELSE LET first == cond.items[1]
         IN IF first.t # "dict" \/ "if" \notin DOMAIN first.d
            THEN <<Err(ctx, "first conditional branch must have an 'if' key", "")>>
            ELSE _validate_guard(first.d["if"], ctx \o " conditional[0]")
                 \o _validate_conditional_branch_body(first.d, ctx \o " conditional[0]")
                 \o FlattenSeq([i \in 1..(Len(cond.items) - 1) |->
                        _validate_later_branch(cond.items[i + 1], i, ctx)])

\* the body of the loop over manifest["functions"]; i is the zero-based index
ValidateFunction(func, i) ==
    IF "name" \notin DOMAIN func
    THEN <<Err("functions[" \o ToString(i) \o "]", "missing required field", "name")>>
    ELSE LET ctx == "function '" \o func["name"] \o "'"
             has_predicate == "predicate" \in DOMAIN func
             has_body == "body" \in DOMAIN func
         IN (IF "description" \notin DOMAIN func
             THEN <<Err(ctx, "missing required field", "description")>> ELSE <<>>)
            \o (IF ~has_predicate /\ ~has_body
                THEN <<Err(ctx, "must have either 'predicate' or 'body'", "")>>
                ELSE <<>>)
            \o (IF has_predicate /\ func["predicate"] \notin DOMAIN PREDICATES
                THEN <<Err(ctx, "unknown predicate", func["predicate"])>>
                ELSE <<>>)

\* the body of the loop over manifest["modules"]; i is the zero-based index
ValidateModule(mod, i) ==
    IF "name" \notin DOMAIN mod
    THEN <<Err("modules[" \o ToString(i) \o "]", "missing required field", "name")>>
    ELSE LET ctx == "module '" \o mod["name"] \o "'"
         IN (IF "prefix" \notin DOMAIN mod
             THEN <<Err(ctx, "missing required field", "prefix")>> ELSE <<>>)
            \o (IF "description" \notin DOMAIN mod
                THEN <<Err(ctx, "missing required field", "description")>> ELSE <<>>)
            \o (IF ~\E k \in BODY_KEYS : k \in DOMAIN mod
                THEN <<Err(ctx, "must have at least one of", "")>> ELSE <<>>)
            \o (IF "env" \in DOMAIN mod THEN _validate_env(mod["env"], ctx) ELSE <<>>)
            \o (IF "source_file" \in DOMAIN mod
                THEN _validate_source_file(mod["source_file"], ctx) ELSE <<>>)
            \o (IF "eval_command" \in DOMAIN mod /\ mod["eval_command"].t # "str"
                THEN <<Err(ctx, "'eval_command' must be a string", "")>> ELSE <<>>)
            \o (IF "conditional" \in DOMAIN mod
                THEN _validate_conditional(mod["conditional"], ctx) ELSE <<>>)
            \o FlattenSeq([g \in 1..Len(_collect_guards(mod)) |->
                    _validate_guard(_collect_guards(mod)[g], ctx)])

validate_manifest(m) ==
    FlattenSeq([i \in 1..Len(GetList(m, "functions")) |->
        ValidateFunction(GetList(m, "functions")[i], i - 1)])
    \o FlattenSeq([i \in 1..Len(GetList(m, "modules")) |->
        ValidateModule(GetList(m, "modules")[i], i - 1)])

-----------------------------------------------------------------------------
(* Guard translation: translate_guard and translate_guard_condition *)

\* the template as written in the table (what a bare string guard returns)
RawText(template) ==
    ConcatStr([i \in 1..Len(template) |->
        IF template[i].k = "lit" THEN template[i].s
        ELSE IF template[i].k = "ph" THEN "{" \o template[i].s \o "}"
        ELSE template[i].s \o template[i].s])

\* template.format(...) with the replacement fields bound by args; a
\* positional field that is not bound raises IndexError, a named one KeyError
Format(template, args) ==
    LET unbound == {i \in 1..Len(template) :
                        template[i].k = "ph" /\ template[i].s \notin DOMAIN args}
        first == CHOOSE i \in unbound : \A j \in unbound : i <= j
    IN IF unbound # {}
       THEN Raised(IF template[first].s \in {"0", "1", "2", "3", "4", "5", "6", "7", "8", "9"}
                   THEN "IndexError" ELSE "KeyError")
       ELSE Returned(ConcatStr([i \in 1..Len(template) |->
                IF template[i].k = "ph" THEN args[template[i].s] ELSE template[i].s]))

\* template.format(**value) for a dict value, template.format(value) otherwise
FormatGuard(template, value) ==
    IF value.t = "dict" THEN Format(template, value.d)
    ELSE Format(template, [p \in {"0"} |-> value.s])

RECURSIVE translate_guard_condition(_, _)
translate_guard_condition(guard, shell) ==
    LET idx == SHELL_INDEX[shell]
    IN IF IsNot(guard)
       THEN LET cond == translate_guard_condition(guard.value, shell)
            IN IF cond.exc # "None" THEN cond
               ELSE IF shell = "fish" THEN Returned("not " \o cond.val)
               ELSE IF shell = "pwsh" THEN Returned("(-not " \o cond.val \o ")")
               ELSE Returned("! " \o cond.val)
       ELSE IF guard.t = "str"
       THEN IF guard.s \notin DOMAIN GUARD_CONDITIONS
            THEN Raised("ValueError: Unknown string guard")
            ELSE Returned(RawText(GUARD_CONDITIONS[guard.s][idx]))
       ELSE IF guard.t = "dict"
       THEN IF guard.key \notin DOMAIN GUARD_CONDITIONS
            THEN Raised("ValueError: Unknown dict guard")
            ELSE FormatGuard(GUARD_CONDITIONS[guard.key][idx], guard.value)
       ELSE IF guard.t = "emptydict"
       THEN Raised("StopIteration")
       ELSE Raised("ValueError: Invalid guard type")

\* 'not' is dropped: the inner guard's own bail line is emitted
translate_guard_not_dropped(guard, shell) ==
    IF IsNot(guard)
    THEN LET cond == translate_guard_condition(guard.value, shell)
         IN IF cond.exc # "None" THEN cond
            ELSE IF shell = "fish" THEN Returned(cond.val \o "; or return 0")
            ELSE IF shell = "pwsh" THEN Returned("if (-not " \o cond.val \o ") { return }")
            ELSE Returned(cond.val \o " || return 0")
    ELSE IF guard.t = "str"
    THEN IF guard.s \notin DOMAIN GUARDS
         THEN Raised("ValueError: Unknown string guard")
         ELSE Returned(RawText(GUARDS[guard.s][SHELL_INDEX[shell]]))
    ELSE IF guard.t = "dict"
    THEN IF guard.key \notin DOMAIN GUARDS
         THEN Raised("ValueError: Unknown dict guard")
         ELSE FormatGuard(GUARDS[guard.key][SHELL_INDEX[shell]], guard.value)
    ELSE IF guard.t = "emptydict"
    THEN Raised("StopIteration")
    ELSE Raised("ValueError: Invalid guard type")

translate_guard(guard, shell) ==
    LET idx == SHELL_INDEX[shell]
    IN IF IsNot(guard)
       THEN LET cond == translate_guard_condition(guard.value, shell)
            IN IF cond.exc # "None" THEN cond
               ELSE IF shell = "fish" THEN Returned(cond.val \o "; and return 0")
               ELSE IF shell = "pwsh" THEN Returned("if (" \o cond.val \o ") { return }")
               ELSE Returned(cond.val \o " && return 0")
       ELSE IF guard.t = "str"
       THEN IF guard.s \notin DOMAIN GUARDS
            THEN Raised("ValueError: Unknown string guard")
            ELSE Returned(RawText(GUARDS[guard.s][idx]))
       ELSE IF guard.t = "dict"
       THEN IF guard.key \notin DOMAIN GUARDS
            THEN Raised("ValueError: Unknown dict guard")
            ELSE FormatGuard(GUARDS[guard.key][idx], guard.value)
       ELSE IF guard.t = "emptydict"
       THEN Raised("StopIteration")
       ELSE Raised("ValueError: Invalid guard type")

\* the first exception in a sequence of results, "None" when all returned
FirstExc(results) ==
    IF \A i \in 1..Len(results) : results[i].exc = "None" THEN "None"
    ELSE results[CHOOSE i \in 1..Len(results) :
            results[i].exc # "None" /\ \A j \in 1..(i - 1) : results[j].exc = "None"].exc

-----------------------------------------------------------------------------
(* Text.  A Python string that can hold newlines is kept as the sequence of  *)
(* its lines, s.split("\n"): never empty, <<"">> for the empty string.  A     *)
(* generator's result "\n".join(lines) + "\n" is kept as the sequence lines,  *)
(* an appended multi-line string contributing its lines in place.            *)

HEADER == "# Generated from .shellgen/shell.yaml -- DO NOT EDIT"

\* the lines that line.strip() empties, among the lines drawn
BlankLines == {"", "  "}

\* s.rstrip("\n")
RECURSIVE RStripNewlines(_)
RStripNewlines(s) ==
    IF Len(s) > 1 /\ s[Len(s)] = ""
    THEN RStripNewlines(SubSeq(s, 1, Len(s) - 1))
    ELSE s

\* f"    {line}" if line.strip() else ""
Indent(line) == IF line \in BlankLines THEN "" ELSE "    " \o line

\* the results of calls made one after another: the lines of all of them, or
\* the first exception
CatResults(results) ==
    IF FirstExc(results) # "None" THEN Raised(FirstExc(results))
    ELSE Returned(FlattenSeq([i \in 1..Len(results) |-> results[i].val]))

\* "shared" comes before the shell's own entry
ResolveBodySharedFirst(body_section, shell) ==
    IF "shared" \in DOMAIN body_section THEN RStripNewlines(body_section["shared"])
    ELSE IF shell \in DOMAIN body_section THEN RStripNewlines(body_section[shell])
    ELSE <<"">>

\* the body text for a shell: its own entry, else "shared", else ""
ResolveBody(body_section, shell) ==
    IF shell \in DOMAIN body_section THEN RStripNewlines(body_section[shell])
    ELSE IF "shared" \in DOMAIN body_section THEN RStripNewlines(body_section["shared"])
    ELSE <<"">>

-----------------------------------------------------------------------------
(* Render helpers *)

_render_path(path, shell) ==
    IF shell = "fish" THEN "fish_add_path " \o path
    ELSE IF shell = "pwsh"
    THEN "$env:PATH = \"" \o path \o "\" + [IO.Path]::PathSeparator + $env:PATH"
    ELSE "export PATH=\"" \o path \o ":$PATH\""

_render_alias(name, cmd, shell) ==
    IF shell = "fish" THEN "alias " \o name \o "='" \o cmd \o "'"
    ELSE IF shell = "pwsh" THEN "function " \o name \o " { " \o cmd \o " @args }"
    ELSE "alias " \o name \o "=\"" \o cmd \o "\""

_render_tool_init(tool, shell) ==
    IF shell = "fish" THEN tool \o " init fish | source"
    ELSE IF shell = "pwsh" THEN "(& " \o tool \o " init pwsh) | Invoke-Expression"
    ELSE "eval \"$(" \o tool \o " init " \o shell \o ")\""

\* str(value) of an env entry
EnvValueStr(entry) == IF entry.vtype = "none" THEN "None" ELSE entry.v

_render_env_var(var, value, shell) ==
    IF shell = "fish" THEN "set -gx " \o var \o " \"" \o value \o "\""
    ELSE IF shell = "pwsh" THEN "$env:" \o var \o " = \"" \o value \o "\""
    ELSE "export " \o var \o "=\"" \o value \o "\""

_render_source_file(path, shell) ==
    IF shell = "fish" THEN "test -f \"" \o path \o "\"; and source \"" \o path \o "\""
    ELSE IF shell = "pwsh" THEN "if (Test-Path \"" \o path \o "\") { . \"" \o path \o "\" }"
    ELSE "[[ -f \"" \o path \o "\" ]] && source \"" \o path \o "\""

\* cmd.replace("{shell}", shell); cmd is kept as its pieces, split around the
\* occurrences of "{shell}" and holding them
ReplaceShell(pieces, shell) ==
    ConcatStr([i \in 1..Len(pieces) |-> IF pieces[i] = "{shell}" THEN shell ELSE pieces[i]])

_render_eval_command(cmd, shell) ==
    LET resolved == ReplaceShell(cmd, shell)
    IN IF shell = "fish" THEN resolved \o " | source"
       ELSE IF shell = "pwsh" THEN "(& " \o resolved \o ") | Invoke-Expression"
       ELSE "eval \"$(" \o resolved \o ")\""

\* the lines each body construct of a section contributes, by construct
ConstructLines(section, shell) ==
    [k \in {"env", "paths", "aliases", "tool", "source_file", "eval_command", "body"} |->
        IF k \notin DOMAIN section THEN Returned(<<>>)
        ELSE IF k = "env"
        THEN IF section["env"].t # "dict" THEN Raised("AttributeError")
             ELSE Returned([i \in 1..Len(section["env"].entries) |->
                    _render_env_var(section["env"].entries[i].k,
                                    EnvValueStr(section["env"].entries[i]), shell)])
        ELSE IF k = "paths"
        THEN Returned([i \in 1..Len(section["paths"]) |->
                    _render_path(section["paths"][i], shell)])
        ELSE IF k = "aliases"
        THEN Returned([i \in 1..Len(section["aliases"]) |->
                    _render_alias(section["aliases"][i].k, section["aliases"][i].v, shell)])
        ELSE IF k = "tool"
        THEN Returned(<<_render_tool_init(section["tool"], shell)>>)
        ELSE IF k = "source_file"
        THEN LET sf == section["source_file"]
             IN IF sf.t = "str" THEN Returned(<<_render_source_file(sf.s, shell)>>)
                ELSE IF sf.t = "list"
                THEN Returned([i \in 1..Len(sf.items) |->
                        _render_source_file(sf.items[i].s, shell)])
                ELSE Returned(<<>>)
        ELSE IF k = "eval_command"
        THEN IF section["eval_command"].t # "str" THEN Raised("AttributeError")
             ELSE Returned(<<_render_eval_command(section["eval_command"].s, shell)>>)
        ELSE LET body == ResolveBody(section["body"], shell)
             IN IF body # <<"">> THEN Returned(body) ELSE Returned(<<>>)]

\* body is rendered before the other constructs
ConstructOrderBodyFirst ==
    <<"body", "env", "paths", "aliases", "tool", "source_file", "eval_command">>

\* the order in which the constructs are rendered
ConstructOrder == <<"env", "paths", "aliases", "tool", "source_file", "eval_command", "body">>

_render_body_lines(section, shell) ==
    CatResults([i \in 1..Len(ConstructOrder) |-> ConstructLines(section, shell)[ConstructOrder[i]]])

\* _render_conditional: the header line of a branch
BranchHeader(branch, cond, shell) ==
    IF "if" \in DOMAIN branch
    THEN IF shell = "fish" THEN <<"if " \o cond>>
         ELSE IF shell = "pwsh" THEN <<"if (" \o cond \o ") {">>
         ELSE <<"if " \o cond \o "; then">>
    ELSE IF "elif" \in DOMAIN branch
    THEN IF shell = "fish" THEN <<"else if " \o cond>>
         ELSE IF shell = "pwsh" THEN <<"} elseif (" \o cond \o ") {">>
         ELSE <<"elif " \o cond \o "; then">>
    ELSE IF "else" \in DOMAIN branch
    THEN IF shell = "pwsh" THEN <<"} else {">> ELSE <<"else">>
    ELSE <<>>

\* the block terminator
BlockEnd(shell) == IF shell = "fish" THEN "end" ELSE IF shell = "pwsh" THEN "}" ELSE "fi"

-----------------------------------------------------------------------------
(* _render_conditional, generate_function, generate_module.  Each returns   *)
(* Returned(lines) or Raised(exception).                                     *)

\* _render_conditional: the condition translated for one branch
BranchCondition(branch, shell) ==
    IF branch.t # "dict" THEN Raised("TypeError")
    ELSE IF "if" \in DOMAIN branch.d
    THEN translate_guard_condition(branch.d["if"], shell)
    ELSE IF "elif" \in DOMAIN branch.d
    THEN translate_guard_condition(branch.d["elif"], shell)
    ELSE Returned("")

\* _render_conditional: the lines one branch appends to parts
BranchLines(branch, shell) ==
    IF branch.t # "dict" THEN Raised("TypeError")
    ELSE IF {"if", "elif", "else"} \cap DOMAIN branch.d = {} THEN Returned(<<>>)
    ELSE LET cond == BranchCondition(branch, shell)
             body_lines == _render_body_lines(branch.d, shell)
         IN IF cond.exc # "None" THEN cond
            ELSE IF body_lines.exc # "None" THEN body_lines
            ELSE Returned(BranchHeader(branch.d, cond.val, shell)
                          \o [i \in 1..Len(body_lines.val) |-> Indent(body_lines.val[i])])

_render_conditional(conditional, shell) ==
    IF conditional.t # "list" THEN Raised("TypeError")
    ELSE LET parts == CatResults([i \in 1..Len(conditional.items) |->
                        BranchLines(conditional.items[i], shell)])
         IN IF parts.exc # "None" THEN parts
            ELSE Returned(Append(parts.val, BlockEnd(shell)))

_generate_predicate(name, desc, predicate, shell) ==
    IF predicate \notin DOMAIN PREDICATES THEN Raised("KeyError: PREDICATES")
    ELSE LET body == PREDICATES[predicate][SHELL_INDEX[shell]]
         IN IF shell = "fish"
            THEN Returned(<<HEADER, "# " \o desc,
                            "function " \o name \o " --description '" \o desc \o "'",
                            "    " \o body, "end">>)
            ELSE IF shell = "bash"
            THEN Returned(<<HEADER, "# " \o desc, name \o "() {", "    " \o body, "}">>)
            ELSE IF shell = "pwsh"
            THEN Returned(<<HEADER, "# " \o desc, "function " \o name \o " {",
                            "    " \o body, "}">>)
            ELSE Returned(<<HEADER, "", body>>)

_generate_complex(name, desc, func, shell) ==
    LET head == <<HEADER>>
                \o (IF "usage" \in DOMAIN func
                    THEN <<"# " \o desc, "# Usage: " \o func["usage"],
                           "# Returns the exit code of the command">>
                    ELSE <<"# " \o desc>>)
                \o <<"">>
    IN IF "body" \notin DOMAIN func THEN Raised("KeyError: 'body'")
       ELSE LET body_text == ResolveBody(func["body"], shell)
                indented == [i \in 1..Len(body_text) |-> Indent(body_text[i])]
            IN IF shell = "fish"
               THEN Returned(head \o <<"function " \o name>> \o indented \o <<"end">>)
               ELSE IF shell = "bash"
               THEN Returned(head \o <<name \o "() {">> \o indented \o <<"}">>)
               ELSE IF shell = "pwsh"
               THEN Returned(head \o <<"function " \o name \o " {">> \o indented \o <<"}">>)
               ELSE Returned(head \o body_text)

generate_function(func, shell) ==
    IF "name" \notin DOMAIN func THEN Raised("KeyError: 'name'")
    ELSE IF "description" \notin DOMAIN func THEN Raised("KeyError: 'description'")
    ELSE IF "predicate" \in DOMAIN func
    THEN _generate_predicate(func["name"], func["description"], func["predicate"], shell)
    ELSE _generate_complex(func["name"], func["description"], func, shell)

\* the description comes before the header
ModuleHeadDescFirst(mod) ==
    <<"# " \o mod["description"], HEADER, "">>

\* generate_module: the header and comment lines, up to the blank line
ModuleHead(mod) ==
    <<HEADER, "# " \o mod["description"]>>
    \o (IF "url" \in DOMAIN mod /\ mod["url"] # "" THEN <<"# " \o mod["url"]>> ELSE <<>>)
    \o (IF "comment" \in DOMAIN mod /\ mod["comment"] # "" THEN <<"# " \o mod["comment"]>> ELSE <<>>)
    \o <<"">>

\* generate_module: one bail line per guard, then a blank line if there are any
GuardLines(mod, shell) ==
    LET guards == _collect_guards(mod)
        translated == [i \in 1..Len(guards) |-> translate_guard(guards[i], shell)]
    IN IF FirstExc(translated) # "None" THEN Raised(FirstExc(translated))
       ELSE Returned([i \in 1..Len(guards) |-> translated[i].val]
                     \o (IF guards # <<>> THEN <<"">> ELSE <<>>))

\* the body lines come before the guard lines
generate_module_body_first(mod, shell) ==
    IF "description" \notin DOMAIN mod THEN Raised("KeyError: 'description'")
    ELSE CatResults(<<Returned(ModuleHead(mod)),
                      _render_body_lines(mod, shell),
                      GuardLines(mod, shell),
                      IF "conditional" \in DOMAIN mod
                      THEN _render_conditional(mod["conditional"], shell)
                      ELSE Returned(<<>>)>>)

generate_module(mod, shell) ==
    IF "description" \notin DOMAIN mod THEN Raised("KeyError: 'description'")
    ELSE CatResults(<<Returned(ModuleHead(mod)),
                      GuardLines(mod, shell),
                      _render_body_lines(mod, shell),
                      IF "conditional" \in DOMAIN mod
                      THEN _render_conditional(mod["conditional"], shell)
                      ELSE Returned(<<>>)>>)

\* the exception a generator ends with, "None" when it returns
generate_module_exc(mod, shell) == generate_module(mod, shell).exc
generate_function_exc(func, shell) == generate_function(func, shell).exc

-----------------------------------------------------------------------------
(* The package-list generator .pkgmgmt/generate_packages.py.  A field value  *)
(* is [t |-> "str", s |-> text] or [t |-> "none"] (YAML null); a text is the *)
(* sequence of its lines.                                                    *)

\* the platforms main generates for, in its order: the Brewfile first
PLATFORMS == <<"macos", "msys2", "apt", "pacman", "dnf", "raspi">>

Str(text) == [t |-> "str", s |-> text]
None == [t |-> "none"]

\* pkg.get(key): None when the key is absent
Get(pkg, key) == IF key \in DOMAIN pkg THEN pkg[key] ELSE None

\* bool(value) and value not in (None, 'null')
IsName(value) == value.t = "str" /\ value.s # "" /\ value.s # "null"

should_skip(pkg, platform) ==
    platform \in (IF "skip" \in DOMAIN pkg THEN {pkg["skip"][i] : i \in 1..Len(pkg["skip"])} ELSE {})

\* the shorthand is looked up before the platform's field
get_package_name_shorthand_first(pkg, platform) ==
    IF IsName(Get(pkg, "pkg")) THEN Get(pkg, "pkg")
    ELSE IF IsName(Get(pkg, platform)) THEN Get(pkg, platform)
    ELSE None

get_package_name(pkg, platform) ==
    IF IsName(Get(pkg, platform)) THEN Get(pkg, platform)
    ELSE IF IsName(Get(pkg, "pkg")) THEN Get(pkg, "pkg")
    ELSE None

\* manifest.get(key, [])
GetTools(m, key) == IF key \in DOMAIN m THEN m[key] ELSE <<>>

\* the names of the cli_tools entries that are neither skipped nor nameless
\* for the platform looked up, in manifest order
PackageNames(m, lookup_platform) ==
    LET cli_tools == GetTools(m, "cli_tools")
        kept == SelectSeq(cli_tools, LAMBDA pkg :
                    /\ ~should_skip(pkg, lookup_platform)
                    /\ IsName(get_package_name(pkg, lookup_platform)))
    IN [i \in 1..Len(kept) |-> get_package_name(kept[i], lookup_platform).s]

\* generate_brewfile: the line of one macos_apps entry, by kind
AppLine(app) ==
    IF "brew" \in DOMAIN app
    THEN "brew \"" \o app["brew"] \o "\""
         \o (IF "brew_options" \in DOMAIN app THEN ", " \o app["brew_options"] ELSE "")
    ELSE IF "cask" \in DOMAIN app THEN "cask \"" \o app["cask"] \o "\""
    ELSE "mas \"" \o app["name"] \o "\", id: " \o app["mas_id"]

AppKind(app) ==
    IF "brew" \in DOMAIN app THEN "brew"
    ELSE IF "cask" \in DOMAIN app THEN "cask"
    ELSE IF "mas_id" \in DOMAIN app THEN "mas" ELSE "none"

generate_brewfile(m) ==
    LET names == PackageNames(m, "macos")
        macos_apps == GetTools(m, "macos_apps")
        OfKind(kind) ==
            LET apps == SelectSeq(macos_apps, LAMBDA app : AppKind(app) = kind)
            IN [i \in 1..Len(apps) |-> AppLine(apps[i])]
    IN <<"tap \"homebrew/bundle\"", "tap \"homebrew/services\"">>
       \o [i \in 1..Len(names) |-> "brew \"" \o names[i] \o "\""]
       \o OfKind("brew") \o OfKind("cask") \o OfKind("mas")

\* generate_package_list: the install hint of a platform
InstallLine(platform) ==
    IF platform = "msys2"
    THEN <<"#   pacman -S --needed $(cat packages-msys2.txt | grep -v '^#')">>
    ELSE IF platform \in {"apt", "raspi"}
    THEN <<"#   sudo apt-get install $(cat packages-" \o platform \o ".txt | grep -v '^#')">>
    ELSE IF platform = "pacman"
    THEN <<"#   sudo pacman -S --needed $(cat packages-pacman.txt | grep -v '^#')">>
    ELSE IF platform = "dnf"
    THEN <<"#   sudo dnf install $(cat packages-dnf.txt | grep -v '^#')">>
    ELSE <<>>

generate_package_list(m, platform) ==
    LET lookup_platform == IF platform = "raspi" THEN "apt" ELSE platform
    IN <<"# Generated package list for " \o platform, "# Generated from packages.yaml",
         "#", "# Install with:">>
       \o InstallLine(platform) \o <<"">>
       \o PackageNames(m, lookup_platform)

\* main: the text written for a platform
PlatformText(m, platform) ==
    IF platform = "macos" THEN generate_brewfile(m) ELSE generate_package_list(m, platform)

-----------------------------------------------------------------------------
(* Inputs drawn for validation and generation *)

\* the dict d restricted to the keys in keys
WithKeys(d, keys) == [k \in keys |-> d[k]]

EnvOk == [t |-> "dict", entries |->
            <<[k |-> "EDITOR", v |-> "vi", ktype |-> "str", vtype |-> "str"]>>]
EnvBadValue == [t |-> "dict", entries |->
            <<[k |-> "EDITOR", v |-> "", ktype |-> "str", vtype |-> "none"]>>]
EnvBadKey == [t |-> "dict", entries |->
            <<[k |-> "1", v |-> "vi", ktype |-> "int", vtype |-> "str"]>>]

\* guards without 'not': known and unknown names, as a bare string and as a
\* mapping, with the parameter shapes a mapping can carry
PlainGuards ==
    { StrGuard("is_tty"), StrGuard("bogus"), StrGuard("command_exists"),
      DictGuard("command_exists", Scalar("eza")),
      DictGuard("bogus", Scalar("x")),
      DictGuard("env_equals", [t |-> "dict", d |-> [var |-> "TERM", value |-> "xterm"]]),
      DictGuard("is_tty", Scalar("x")),
      DictGuard("command_exists", [t |-> "dict", d |-> [var |-> "TERM", value |-> "xterm"]]),
      EmptyDictGuard, OtherValue }

\* guards wrapped in at most n levels of 'not'
RECURSIVE GuardsUpTo(_)
GuardsUpTo(n) ==
    IF n = 0 THEN PlainGuards
    ELSE GuardsUpTo(n - 1) \cup {NotGuard(g) : g \in GuardsUpTo(n - 1)}

KnownGuard == DictGuard("command_exists", Scalar("eza"))
UnknownGuard == StrGuard("bogus")
FewGuards == {KnownGuard, UnknownGuard, NotGuard(DictGuard("bogus", Scalar("x")))}

FuncFull ==
    [name |-> "f", description |-> "d", predicate |-> "os_is_darwin",
     body |-> [shared |-> <<"true">>]]

FuncItems ==
    {WithKeys(FuncFull, ks) : ks \in SUBSET {"name", "description", "predicate", "body"}}
    \cup {[WithKeys(FuncFull, ks) EXCEPT !["predicate"] = "os_is_bsd"] :
            ks \in {s \cup {"predicate"} : s \in SUBSET {"name", "description", "body"}}}

ModFull ==
    [name |-> "m", prefix |-> "10", description |-> "d", tool |-> "starship",
     paths |-> <<"$HOME/bin">>, aliases |-> <<[k |-> "ll", v |-> "ls -l"]>>,
     env |-> EnvOk, source_file |-> [t |-> "str", s |-> "$HOME/.local.sh"],
     eval_command |-> [t |-> "str", s |-> <<"brew shellenv ", "{shell}">>],
     body |-> [shared |-> <<"true">>]]

Required == {"name", "prefix", "description"}

\* modules that differ in their required fields and in one body construct
FieldModules ==
    UNION {
        {WithKeys(ModFull, req \cup body) :
            body \in {{}, {"tool"}, {"paths"}, {"aliases"}, {"env"}, {"source_file"},
                      {"eval_command"}, {"body"}, {"tool", "env"}}}
        \cup {[WithKeys(ModFull, req \cup {"env"}) EXCEPT !["env"] = e] :
                e \in {EnvBadValue, EnvBadKey, OtherValue}}
        \cup {[WithKeys(ModFull, req \cup {"source_file"}) EXCEPT !["source_file"] = sf] :
                sf \in {[t |-> "list", items |-> <<[t |-> "str", s |-> "a"]>>],
                        [t |-> "list", items |-> <<[t |-> "str", s |-> "a"], [t |-> "other", s |-> ""]>>],
                        OtherValue}}
        \cup {[WithKeys(ModFull, req \cup {"eval_command"}) EXCEPT !["eval_command"] = OtherValue]}
        : req \in SUBSET Required}

\* modules that differ in their guards
GuardModules ==
    {WithKeys(ModFull, Required \cup {"tool"}) @@ [k \in {"guard"} |-> g] :
        g \in GuardsUpTo(MaxNot)}
    \cup {WithKeys(ModFull, Required \cup {"tool"}) @@ [k \in {"guards"} |-> gs] :
            gs \in SeqsUpTo(FewGuards, MaxGuards)}
    \cup {WithKeys(ModFull, Required \cup {"tool"})
            @@ [k \in {"guard", "guards"} |-> IF k = "guard" THEN UnknownGuard ELSE <<KnownGuard>>]}

BranchFull ==
    [k \in {"if", "elif", "else", "env", "conditional"} |->
        IF k \in {"if", "elif"} THEN KnownGuard
        ELSE IF k = "else" THEN OtherValue
        ELSE IF k = "env" THEN EnvOk
        ELSE [t |-> "list", items |-> <<>>]]

Branch(d) == [t |-> "dict", d |-> d]

FirstBranches ==
    {OtherValue}
    \cup {Branch([WithKeys(BranchFull, {"if", "env"}) EXCEPT !["if"] = g]) :
            g \in GuardsUpTo(MaxNot)}
    \cup {Branch(WithKeys(BranchFull, cks \cup body)) :
            cks \in SUBSET {"if", "elif", "else"},
            body \in {{}, {"env"}, {"conditional"}}}

LaterBranches ==
    {OtherValue}
    \cup UNION {
        {Branch([k \in cks \cup body |->
                    IF k = "if" THEN gi ELSE IF k = "elif" THEN ge ELSE BranchFull[k]]) :
            gi \in IF "if" \in cks THEN {KnownGuard, UnknownGuard} ELSE {KnownGuard},
            ge \in IF "elif" \in cks THEN {KnownGuard, UnknownGuard} ELSE {KnownGuard}}
        : cks \in SUBSET {"if", "elif", "else"}, body \in {{}, {"env"}}}

Conditionals ==
    {OtherValue, [t |-> "list", items |-> <<>>]}
    \cup {[t |-> "list", items |-> <<first>> \o rest] :
            first \in FirstBranches, rest \in SeqsUpTo(LaterBranches, MaxBranches - 1)}

\* modules that differ in their conditional
ConditionalModules ==
    {WithKeys(ModFull, Required) @@ [k \in {"conditional"} |-> c] : c \in Conditionals}
    \cup {WithKeys(ModFull, {"prefix", "description"}) @@ [k \in {"conditional"} |-> c] :
            c \in {OtherValue, [t |-> "list", items |-> <<Branch(WithKeys(BranchFull, {"else"}))>>]}}

\* a module with a name on which every other check fails
ModManyFaults ==
    [name |-> "m", env |-> EnvBadValue, source_file |-> OtherValue, eval_command |-> OtherValue,
     conditional |-> OtherValue, guard |-> UnknownGuard]

ValidationManifests ==
    {[k \in {"functions"} |-> fs] : fs \in SeqsUpTo(FuncItems, MaxValFuncs)}
    \cup {[modules |-> <<ModManyFaults>>]}
    \cup {[k \in {"modules"} |-> <<m>>] :
            m \in FieldModules \cup GuardModules \cup ConditionalModules}
    \cup {[functions |-> <<f>>, modules |-> <<m1, m2>>] :
            f \in {WithKeys(FuncFull, {"name", "description", "predicate"}),
                   WithKeys(FuncFull, {"description"})},
            m1 \in {WithKeys(ModFull, Required \cup {"tool"}),
                    WithKeys(ModFull, {"description", "tool"})},
            m2 \in {WithKeys(ModFull, Required \cup {"tool"}),
                    WithKeys(ModFull, {"name", "tool"}),
                    WithKeys(ModFull, Required \cup {"tool"}) @@ [k \in {"guard"} |-> UnknownGuard]}}

-----------------------------------------------------------------------------
(* Inputs drawn for rendering: one function or one module *)

\* a body text of at most MaxLines lines: lines naming the key it is stored
\* under, empty lines and whitespace-only lines
BodyTexts(key) == UNION {[1..k -> {"echo " \o key, "", "  "}] : k \in 1..MaxLines}

\* body mappings with an entry for fish, for shared, for both or for neither
BodySections ==
    UNION {{[k \in ks |-> IF k = "fish" THEN f ELSE sh] :
                f \in BodyTexts("fish"), sh \in BodyTexts("shared")} :
           ks \in SUBSET {"fish", "shared"}}

RenderFunctions ==
    {[name |-> "f", description |-> "d", predicate |-> p] : p \in DOMAIN PREDICATES}
    \cup {[name |-> "f", description |-> "d", body |-> b] : b \in BodySections}
    \cup {[name |-> "f", description |-> "d", usage |-> "f ARG", body |-> b] :
            b \in BodySections}
    \cup {[name |-> "f", description |-> "d", predicate |-> "os_is_linux",
           body |-> [shared |-> <<"echo shared">>]]}

ModBase == [name |-> "m", prefix |-> "10", description |-> "d"]

Constructs == {"env", "paths", "aliases", "tool", "source_file", "eval_command", "body"}

RenderGuards ==
    {KnownGuard, StrGuard("is_tty"),
     NotGuard(DictGuard("env_equals", [t |-> "dict", d |-> [var |-> "TERM", value |-> "xterm"]]))}

\* the ways a module declares guards: not at all, guard, guards, both
GuardDeclarations ==
    {[k \in {} |-> <<>>]}
    \cup {[k \in {"guard"} |-> g] : g \in RenderGuards}
    \cup {[k \in {"guards"} |-> gs] : gs \in SeqsUpTo(RenderGuards, MaxRenderGuards)}
    \cup {[k \in {"guard", "guards"} |-> IF k = "guard" THEN KnownGuard ELSE <<StrGuard("is_tty")>>]}

RenderFirstBranches ==
    {Branch([k \in {"if", "env"} |-> IF k = "if" THEN KnownGuard ELSE EnvOk]),
     Branch([k \in {"if", "body"} |->
                IF k = "if" THEN NotGuard(StrGuard("is_tty"))
                ELSE [shared |-> <<"echo if", "", "echo more">>]])}

RenderLaterBranches ==
    {Branch([k \in {"elif", "paths"} |-> IF k = "elif" THEN StrGuard("is_tty") ELSE <<"/elif">>]),
     Branch([k \in {"elif", "body"} |->
                IF k = "elif" THEN KnownGuard ELSE [fish |-> <<"echo fish">>]]),
     Branch([k \in {"else", "tool"} |-> IF k = "else" THEN OtherValue ELSE "starship"]),
     Branch([k \in {"else", "body"} |->
                IF k = "else" THEN OtherValue ELSE [shared |-> <<"echo else", "  ", "echo more">>]]),
     Branch([k \in {"if", "else", "paths"} |->
                IF k = "if" THEN StrGuard("is_interactive")
                ELSE IF k = "else" THEN OtherValue ELSE <<"/stray">>])}

RenderConditionals ==
    {[t |-> "list", items |-> <<first>> \o rest] :
        first \in RenderFirstBranches,
        rest \in SeqsUpTo(RenderLaterBranches, MaxRenderBranches - 1)}

ExampleConditional ==
    [t |-> "list", items |->
        <<Branch([k \in {"if", "env"} |-> IF k = "if" THEN KnownGuard ELSE EnvOk]),
          Branch([k \in {"else", "tool"} |-> IF k = "else" THEN OtherValue ELSE "starship"])>>]

RenderModules ==
    \* every combination of body constructs, with and without a conditional
    {WithKeys(ModFull, Required \cup ks) : ks \in SUBSET Constructs}
    \cup {WithKeys(ModFull, Required \cup ks) @@ [k \in {"conditional"} |-> ExampleConditional] :
            ks \in SUBSET Constructs}
    \* guards, before a body and before a conditional
    \cup {WithKeys(ModFull, Required \cup ks) @@ gd :
            ks \in {{"tool"}, {"env", "body"}}, gd \in GuardDeclarations}
    \cup {ModBase @@ gd @@ [k \in {"conditional"} |-> ExampleConditional] :
            gd \in GuardDeclarations}
    \* body texts
    \cup {ModBase @@ [k \in {"body"} |-> b] : b \in BodySections}
    \cup {ModBase @@ [k \in {"body", "guard"} |-> IF k = "body" THEN b ELSE KnownGuard] :
            b \in BodySections}
    \* conditionals
    \cup {ModBase @@ [k \in {"conditional"} |-> c] : c \in RenderConditionals}
    \* url and comment lines, constructs without entries
    \cup {ModBase @@ [k \in ks \cup {"tool"} |-> IF k = "tool" THEN "starship" ELSE "see " \o k] :
            ks \in SUBSET {"url", "comment"}}
    \cup {ModBase @@ [k \in {"paths"} |-> <<>>],
          ModBase @@ [k \in {"aliases"} |-> <<>>],
          ModBase @@ [k \in {"env"} |-> [t |-> "dict", entries |-> <<>>]],
          ModBase @@ [k \in {"source_file"} |-> [t |-> "list", items |-> <<>>]]}

-----------------------------------------------------------------------------
(* Source resolution and loading: resolve_sources, load_manifest *)

\* a valid manifest
ManifestA ==
    [functions |-> <<WithKeys(FuncFull, {"name", "description", "predicate"})>>,
     modules |-> <<WithKeys(ModFull, Required \cup {"tool"})>>]

\* a valid manifest that overrides both names of ManifestA and repeats a name
ManifestB ==
    [functions |-> <<WithKeys(FuncFull, {"name", "description", "body"}),
                     [WithKeys(FuncFull, {"name", "description", "predicate"})
                        EXCEPT !["name"] = "g"],
                     [WithKeys(FuncFull, {"name", "description", "predicate"})
                        EXCEPT !["description"] = "d2"]>>,
     modules |-> <<[WithKeys(ModFull, Required \cup {"paths"}) EXCEPT !["prefix"] = "20"],
                   [WithKeys(ModFull, Required \cup {"env"}) EXCEPT !["name"] = "n"],
                   [WithKeys(ModFull, Required \cup {"env"}) EXCEPT !["prefix"] = "20"]>>]

\* a manifest with named items that fails validation
ManifestInvalid ==
    [functions |-> <<[WithKeys(FuncFull, {"name", "predicate"}) EXCEPT !["name"] = "g"]>>]

\* a manifest with an item that has no name
ManifestNameless ==
    [modules |-> <<WithKeys(ModFull, {"prefix", "description", "tool"})>>]

\* a manifest that validates although a later conditional branch carries an
\* 'if' key with an unknown guard next to its 'else'
ManifestStrayIf ==
    [modules |-> <<[WithKeys(ModFull, Required) EXCEPT !["name"] = "n"]
        @@ [k \in {"conditional"} |->
             [t |-> "list", items |->
                <<Branch(WithKeys(BranchFull, {"if", "env"})),
                  Branch([WithKeys(BranchFull, {"if", "else", "env"})
                            EXCEPT !["if"] = UnknownGuard])>>]]>>]

\* a valid manifest with a function whose zsh file name is the ledger's name
ManifestLedgerName ==
    [functions |-> <<[name |-> ".gitignore", description |-> "d",
                      body |-> [shared |-> <<"echo hi">>]]>>]

\* a valid manifest with two modules of different names whose prefix and name
\* give the same file name
ManifestSameFile ==
    [modules |-> <<[name |-> "a", prefix |-> "1-0", description |-> "d", tool |-> "starship"],
                   [name |-> "0-a", prefix |-> "1", description |-> "d", tool |-> "zoxide"]>>]

\* a manifest that validates and whose first module the generators raise on
\* (ManifestStrayIf), between a function and a module that generate
ManifestAbort ==
    [functions |-> ManifestA["functions"],
     modules |-> ManifestStrayIf["modules"] \o ManifestA["modules"]]

\* valid manifests for successive calls of generate_all on one target: with
\* functions and modules, with other items, with functions only, with
\* modules only, with nothing
LedgerManifests ==
    {ManifestA, ManifestB, [functions |-> ManifestA["functions"]],
     [modules |-> ManifestA["modules"]], [functions |-> <<>>, modules |-> <<>>],
     ManifestAbort}

\* the files and directories the source paths can name; load_manifest's
\* result (yaml.safe_load(f) or {}) is kept with each file
Disk ==
    [p \in {"shell.yaml", "work.yaml", "invalid.yaml", "nameless.yaml",
            "strayif.yaml", "ledgername.yaml", "samefile.yaml", "empty.yaml", "conf.d",
            "conf.d/shell.yaml",
            "bare.d"} |->
        IF p = "shell.yaml" THEN [kind |-> "file", manifest |-> ManifestA]
        ELSE IF p = "work.yaml" THEN [kind |-> "file", manifest |-> ManifestB]
        ELSE IF p = "invalid.yaml" THEN [kind |-> "file", manifest |-> ManifestInvalid]
        ELSE IF p = "nameless.yaml" THEN [kind |-> "file", manifest |-> ManifestNameless]
        ELSE IF p = "strayif.yaml" THEN [kind |-> "file", manifest |-> ManifestStrayIf]
        ELSE IF p = "ledgername.yaml" THEN [kind |-> "file", manifest |-> ManifestLedgerName]
        ELSE IF p = "samefile.yaml" THEN [kind |-> "file", manifest |-> ManifestSameFile]
        ELSE IF p = "empty.yaml" THEN [kind |-> "file", manifest |-> [k \in {} |-> <<>>]]
        ELSE IF p = "conf.d/shell.yaml" THEN [kind |-> "file", manifest |-> ManifestB]
        ELSE [kind |-> "dir", manifest |-> [k \in {} |-> <<>>]]]

\* the paths a user can pass; "missing.yaml" names nothing
SourcePaths ==
    {"shell.yaml", "work.yaml", "invalid.yaml", "nameless.yaml", "strayif.yaml",
     "ledgername.yaml", "samefile.yaml", "empty.yaml", "conf.d", "bare.d", "missing.yaml"}

\* str(script_dir / "shell.yaml")
DefaultSource == "shell.yaml"

\* script_dir/shell.yaml is on disk or not; the other paths are as in Disk
is_file(p) ==
    /\ p \in DOMAIN Disk /\ Disk[p].kind = "file"
    /\ p = DefaultSource => script_yaml = "file"
is_dir(p) == p \in DOMAIN Disk /\ Disk[p].kind = "dir"

\* what resolve_sources appends for one path: the resolved file, or nothing
ResolveOne(p) ==
    IF is_file(p) THEN <<p>>
    ELSE IF is_dir(p) /\ is_file(p \o "/shell.yaml") THEN <<p \o "/shell.yaml">>
    ELSE <<>>

\* the paths are gone through from the last to the first
resolve_sources_reversed(paths) ==
    FlattenSeq([i \in 1..Len(paths) |-> ResolveOne(paths[Len(paths) - i + 1])])

resolve_sources(paths) == FlattenSeq([i \in 1..Len(paths) |-> ResolveOne(paths[i])])

\* the warnings resolve_sources raises
ResolveWarnings(paths, quiet_flag) ==
    IF quiet_flag THEN 0
    ELSE Cardinality({i \in 1..Len(paths) : ResolveOne(paths[i]) = <<>>})

load_manifest(p) == Disk[p].manifest

-----------------------------------------------------------------------------
(* Output directories and file names: get_output_dirs, generate_all *)

SHELL_MODULE_EXT == [fish |-> ".fish", zsh |-> ".zsh", bash |-> ".bash", pwsh |-> ".ps1"]
SHELL_FUNC_EXT == [fish |-> ".fish", zsh |-> "", bash |-> ".bash", pwsh |-> ".ps1"]

\* target is "None" (the chezmoi source tree under repo_root) or a directory
get_output_dirs(tgt) ==
    IF tgt = "None"
    THEN [fish |-> [functions |-> "repo/dot_config/fish/functions",
                    modules |-> "repo/dot_config/fish/conf.d"],
          zsh |-> [functions |-> "repo/dot_config/zsh/dot_zfunctions",
                   modules |-> "repo/dot_config/zsh/dot_zshrc.d"],
          bash |-> [functions |-> "repo/dot_config/bash/functions",
                    modules |-> "repo/dot_config/bash/bashrc.d"],
          pwsh |-> [functions |-> "repo/dot_config/powershell/functions",
                    modules |-> "repo/dot_config/powershell/conf.d"]]
    ELSE [fish |-> [functions |-> tgt \o "/fish/functions",
                    modules |-> tgt \o "/fish/conf.d"],
          zsh |-> [functions |-> tgt \o "/zsh/.zfunctions",
                   modules |-> tgt \o "/zsh/.zshrc.d"],
          bash |-> [functions |-> tgt \o "/bash/functions",
                    modules |-> tgt \o "/bash/bashrc.d"],
          pwsh |-> [functions |-> tgt \o "/powershell/functions",
                    modules |-> tgt \o "/powershell/conf.d"]]

\* the directories in the insertion order of dir_files
OutputDirList(tgt) ==
    FlattenSeq([i \in 1..Len(SHELLS) |->
        <<get_output_dirs(tgt)[SHELLS[i]]["functions"],
          get_output_dirs(tgt)[SHELLS[i]]["modules"]>>])

\* the modules are written before the functions
JobsModulesFirst(m) ==
    FlattenSeq([i \in 1..Len(GetList(m, "modules")) |->
        [s \in 1..Len(SHELLS) |->
            [kind |-> "modules", item |-> GetList(m, "modules")[i], shell |-> SHELLS[s]]]])
    \o FlattenSeq([i \in 1..Len(GetList(m, "functions")) |->
        [s \in 1..Len(SHELLS) |->
            [kind |-> "functions", item |-> GetList(m, "functions")[i], shell |-> SHELLS[s]]]])

\* the (item, shell) pairs in the order generate_all writes them: every
\* function for every shell, then every module for every shell
Jobs(m) ==
    FlattenSeq([i \in 1..Len(GetList(m, "functions")) |->
        [s \in 1..Len(SHELLS) |->
            [kind |-> "functions", item |-> GetList(m, "functions")[i], shell |-> SHELLS[s]]]])
    \o FlattenSeq([i \in 1..Len(GetList(m, "modules")) |->
        [s \in 1..Len(SHELLS) |->
            [kind |-> "modules", item |-> GetList(m, "modules")[i], shell |-> SHELLS[s]]]])

\* f"{name}{func_ext}" / f"{prefix}-{name}{mod_ext}"
JobFilename(job) ==
    IF job.kind = "functions"
    THEN job.item["name"] \o SHELL_FUNC_EXT[job.shell]
    ELSE job.item["prefix"] \o "-" \o job.item["name"] \o SHELL_MODULE_EXT[job.shell]

\* the exception the job's generator call ends with ("None": it returns)
JobExc(job) ==
    IF job.kind = "functions" THEN generate_function_exc(job.item, job.shell)
    ELSE generate_module_exc(job.item, job.shell)

\* the text written for a job: generate_function(func, shell) or
\* generate_module(mod, shell)
JobContent(job) ==
    IF job.kind = "functions" THEN generate_function(job.item, job.shell).val
    ELSE generate_module(job.item, job.shell).val

\* the file names the model can generate, in ascending order (sorted() compares
\* strings by code point)
AscendingNames ==
    << ".gitignore", ".gitignore.bash", ".gitignore.fish", ".gitignore.ps1",
       "1-0-a.bash", "1-0-a.fish", "1-0-a.ps1", "1-0-a.zsh",
       "10-m.bash", "10-m.fish", "10-m.ps1", "10-m.zsh",
       "10-n.bash", "10-n.fish", "10-n.ps1", "10-n.zsh",
       "20-m.bash", "20-m.fish", "20-m.ps1", "20-m.zsh",
       "20-n.bash", "20-n.fish", "20-n.ps1", "20-n.zsh",
       "f", "f.bash", "f.fish", "f.ps1", "g", "g.bash", "g.fish", "g.ps1" >>

\* sorted(filenames)
Sorted(names) ==
    FlattenSeq([i \in 1..Len(AscendingNames) |->
        SelectSeq(names, LAMBDA x : x = AscendingNames[i])])

\* _write_gitignore: the lines of the ledger
GitignoreLines(filenames) ==
    <<"# Generated by generate_shell.py -- DO NOT EDIT">> \o Sorted(filenames)

\* the text "\n".join(lines) + "\n" written to .gitignore, as its lines
GitignoreContent(filenames) == GitignoreLines(filenames)

-----------------------------------------------------------------------------
(* main: its steps, in program order *)

\* standard input is a terminal: nothing is read from it
Tty == [tty |-> TRUE, lines |-> <<>>]

\* the lines piped into standard input
Piped(lines) == [tty |-> FALSE, lines |-> lines]

\* a line of standard input: its text between leading and trailing
\* whitespace (the newline included); the text has none at its ends
Line(lead, text, trail) == [lead |-> lead, text |-> text, trail |-> trail]

\* line.strip()
Strip(line) == line.text

\* raw_sources as main collects it: the non-blank lines of standard input,
\* stripped, when it is not a terminal, then the positional arguments
\* the arguments are put in front of the piped lines
CollectSourcesArgsFirst(input, positional) ==
    positional
    \o (IF input.tty THEN <<>>
        ELSE LET stripped == [i \in 1..Len(input.lines) |-> Strip(input.lines[i])]
             IN SelectSeq(stripped, LAMBDA l : l # ""))

CollectSources(input, positional) ==
    (IF input.tty THEN <<>>
     ELSE LET stripped == [i \in 1..Len(input.lines) |-> Strip(input.lines[i])]
          IN SelectSeq(stripped, LAMBDA l : l # ""))
    \o positional

NoManifest == [k \in {} |-> <<>>]
NoFiles == [p \in {} |-> <<>>]
\* no generate_all run has completed yet
NoRun == [runs |-> 0, dirs |-> {}, files |-> NoFiles, returned |-> <<>>]

InitMain ==
    /\ pc = "start"
    /\ stdin = Tty
    /\ args_sources \in SeqsUpTo(SourcePaths, MaxSources)
    /\ script_yaml = "file"
    /\ raw_sources = <<>>
    /\ target \in {"None", "/home/u/.config"}
    /\ quiet \in BOOLEAN
    /\ source_files = <<>>
    /\ nwarn = 0
    /\ manifest = NoManifest
    /\ nloaded = 0
    /\ errors = <<>>
    /\ out_dirs = {}
    /\ out_files = NoFiles
    /\ dir_files = NoFiles
    /\ generated_files = <<>>
    /\ jobs_done = 0
    /\ exit_code = "running"
    /\ prev_run = NoRun

\* the check `if not source_files` is left out: main goes on without sources
ResolveNoFatal ==
    /\ pc = "start"
    /\ LET raw == IF CollectSources(stdin, args_sources) = <<>> THEN <<DefaultSource>>
                  ELSE CollectSources(stdin, args_sources)
       IN /\ raw_sources' = raw
          /\ source_files' = resolve_sources(raw)
          /\ nwarn' = ResolveWarnings(raw, quiet)
          /\ pc' = "merge" /\ UNCHANGED exit_code
          /\ manifest' = [functions |-> <<>>, modules |-> <<>>]
    /\ UNCHANGED <<mergeVars, valVars, renderVars, guardVars, prev_run, stdin, args_sources, script_yaml, target, quiet, nloaded, errors, out_dirs, out_files,
                   dir_files, generated_files, jobs_done>>

\* collect the sources (the default when none is given) and resolve them;
\* return 1 when none resolves
Resolve ==
    /\ pc = "start"
    /\ LET raw == IF CollectSources(stdin, args_sources) = <<>> THEN <<DefaultSource>>
                  ELSE CollectSources(stdin, args_sources)
       IN /\ raw_sources' = raw
          /\ source_files' = resolve_sources(raw)
          /\ nwarn' = ResolveWarnings(raw, quiet)
          /\ IF resolve_sources(raw) = <<>>
             THEN pc' = "done" /\ exit_code' = "1" /\ UNCHANGED manifest
             ELSE /\ pc' = "merge" /\ UNCHANGED exit_code
                  /\ manifest' = [functions |-> <<>>, modules |-> <<>>]
    /\ UNCHANGED <<mergeVars, valVars, renderVars, guardVars, prev_run, stdin, args_sources, script_yaml, target, quiet, nloaded, errors, out_dirs, out_files,
                   dir_files, generated_files, jobs_done>>

\* one turn of the loop: load the next source and merge it into the manifest
LoadAndMerge ==
    /\ pc = "merge"
    /\ nloaded < Len(source_files)
    /\ LET r == merge_manifests(manifest, load_manifest(source_files[nloaded + 1]))
       IN IF r.exc # "None"
          THEN pc' = "done" /\ exit_code' = "uncaught " \o r.exc /\ UNCHANGED manifest
          ELSE pc' = "merge" /\ manifest' = r.val /\ UNCHANGED exit_code
    /\ nloaded' = nloaded + 1
    /\ UNCHANGED <<mergeVars, valVars, renderVars, guardVars, prev_run, stdin, args_sources, script_yaml, raw_sources, target, quiet, source_files, nwarn, errors, out_dirs,
                   out_files, dir_files, generated_files, jobs_done>>

\* the check `if errors` is left out: generation always follows validation
ValidateStepNoGate ==
    /\ pc = "merge"
    /\ nloaded = Len(source_files)
    /\ errors' = validate_manifest(manifest)
    /\ pc' = "mkdirs" /\ UNCHANGED exit_code
    /\ UNCHANGED <<mergeVars, valVars, renderVars, guardVars, prev_run, stdin, args_sources, script_yaml, raw_sources, target, quiet, source_files, nwarn, manifest, nloaded,
                   out_dirs, out_files, dir_files, generated_files, jobs_done>>

\* validate the merged manifest; return 1 when there are errors
ValidateStep ==
    /\ pc = "merge"
    /\ nloaded = Len(source_files)
    /\ errors' = validate_manifest(manifest)
    /\ IF validate_manifest(manifest) # <<>>
       THEN pc' = "done" /\ exit_code' = "1"
       ELSE pc' = "mkdirs" /\ UNCHANGED exit_code
    /\ UNCHANGED <<mergeVars, valVars, renderVars, guardVars, prev_run, stdin, args_sources, script_yaml, raw_sources, target, quiet, source_files, nwarn, manifest, nloaded,
                   out_dirs, out_files, dir_files, generated_files, jobs_done>>

\* the per-directory lists of an earlier call are kept
MakeDirsKeepLists ==
    /\ pc = "mkdirs"
    /\ out_dirs' = out_dirs \cup {OutputDirList(target)[i] : i \in 1..Len(OutputDirList(target))}
    /\ dir_files' = [d \in {OutputDirList(target)[i] : i \in 1..Len(OutputDirList(target))} |->
                        IF d \in DOMAIN dir_files THEN dir_files[d] ELSE <<>>]
    /\ generated_files' = <<>>
    /\ jobs_done' = 0
    /\ pc' = "write"
    /\ UNCHANGED <<mergeVars, valVars, renderVars, guardVars, prev_run, stdin, args_sources, script_yaml, raw_sources, target, quiet, source_files, nwarn, manifest, nloaded,
                   errors, out_files, exit_code>>

\* generate_all: create the output directories, start the list of written
\* paths and the per-directory lists
MakeDirs ==
    /\ pc = "mkdirs"
    /\ out_dirs' = out_dirs \cup {OutputDirList(target)[i] : i \in 1..Len(OutputDirList(target))}
    /\ dir_files' = [d \in {OutputDirList(target)[i] : i \in 1..Len(OutputDirList(target))} |-> <<>>]
    /\ generated_files' = <<>>
    /\ jobs_done' = 0
    /\ pc' = "write"
    /\ UNCHANGED <<mergeVars, valVars, renderVars, guardVars, prev_run, stdin, args_sources, script_yaml, raw_sources, target, quiet, source_files, nwarn, manifest, nloaded,
                   errors, out_files, exit_code>>

\* generate_all: generate and write the next file; an exception of the
\* generator ends the run
WriteFile ==
    /\ pc = "write"
    /\ jobs_done < Len(Jobs(manifest))
    /\ LET job == Jobs(manifest)[jobs_done + 1]
           dir == get_output_dirs(target)[job.shell][job.kind]
           path == dir \o "/" \o JobFilename(job)
       IN IF JobExc(job) # "None"
          THEN /\ pc' = "done" /\ exit_code' = "uncaught " \o JobExc(job)
               /\ UNCHANGED <<out_files, dir_files, generated_files, jobs_done>>
          ELSE /\ out_files' = [p \in DOMAIN out_files \cup {path} |->
                                    IF p = path THEN JobContent(job) ELSE out_files[p]]
               /\ generated_files' = Append(generated_files, path)
               /\ dir_files' = [dir_files EXCEPT ![dir] = Append(@, JobFilename(job))]
               /\ jobs_done' = jobs_done + 1
               /\ UNCHANGED <<pc, exit_code>>
    /\ UNCHANGED <<mergeVars, valVars, renderVars, guardVars, prev_run, stdin, args_sources, script_yaml, raw_sources, target, quiet, source_files, nwarn, manifest, nloaded,
                   errors, out_dirs>>

\* generate_all: write_text of the next file raises OSError, which ends the
\* run
WriteFails ==
    /\ pc = "write"
    /\ jobs_done < Len(Jobs(manifest))
    /\ JobExc(Jobs(manifest)[jobs_done + 1]) = "None"
    /\ pc' = "done"
    /\ exit_code' = "uncaught OSError"
    /\ UNCHANGED <<mergeVars, valVars, renderVars, guardVars, prev_run, stdin, args_sources, script_yaml, raw_sources, target, quiet, source_files, nwarn, manifest, nloaded,
                   errors, out_dirs, out_files, dir_files, generated_files, jobs_done>>

\* generate_all: all files are written; go on to the .gitignore files
FilesDone ==
    /\ pc = "write"
    /\ jobs_done = Len(Jobs(manifest))
    /\ pc' = "ledgers"
    /\ jobs_done' = 0
    /\ UNCHANGED <<mergeVars, valVars, renderVars, guardVars, prev_run, stdin, args_sources, script_yaml, raw_sources, target, quiet, source_files, nwarn, manifest, nloaded,
                   errors, out_dirs, out_files, dir_files, generated_files, exit_code>>

\* generate_all: one turn of the loop over dir_files (jobs_done counts the
\* directories visited): write the directory's .gitignore when it got files
WriteLedger ==
    /\ pc = "ledgers"
    /\ jobs_done < Len(OutputDirList(target))
    /\ LET dir == OutputDirList(target)[jobs_done + 1]
           path == dir \o "/.gitignore"
       IN IF dir_files[dir] # <<>>
          THEN out_files' = [p \in DOMAIN out_files \cup {path} |->
                    IF p = path THEN GitignoreContent(dir_files[dir]) ELSE out_files[p]]
          ELSE UNCHANGED out_files
    /\ jobs_done' = jobs_done + 1
    /\ UNCHANGED <<mergeVars, valVars, renderVars, guardVars, prev_run, stdin, args_sources, script_yaml, raw_sources, target, quiet, source_files, nwarn, manifest, nloaded,
                   errors, out_dirs, dir_files, generated_files, pc, exit_code>>

\* main: generate_all returned; return 0
Finish ==
    /\ pc = "ledgers"
    /\ jobs_done = Len(OutputDirList(target))
    /\ pc' = "done"
    /\ exit_code' = "0"
    /\ UNCHANGED <<mergeVars, valVars, renderVars, guardVars, prev_run, stdin, args_sources, script_yaml, raw_sources, target, quiet, source_files, nwarn, manifest, nloaded,
                   errors, out_dirs, out_files, dir_files, generated_files, jobs_done>>

\* generate_all is called again on the same manifest and target, after a
\* call that completed: what that call left and returned is remembered
Rerun ==
    /\ pc = "done" /\ exit_code = "0"
    /\ prev_run.runs < MaxRuns - 1
    /\ prev_run' = [runs |-> prev_run.runs + 1, dirs |-> out_dirs, files |-> out_files,
                    returned |-> generated_files]
    /\ pc' = "mkdirs"
    /\ exit_code' = "running"
    /\ UNCHANGED <<mergeVars, valVars, renderVars, guardVars, stdin, args_sources, script_yaml, raw_sources, target, quiet, source_files, nwarn, manifest, nloaded,
                   errors, out_dirs, out_files, dir_files, generated_files, jobs_done>>

\* generate_all is called again on the same target with another validated
\* manifest, after a call that completed
Regenerate ==
    /\ pc = "done" /\ exit_code = "0"
    /\ prev_run.runs < MaxRuns - 1
    /\ \E m \in LedgerManifests : manifest' = m
    /\ prev_run' = [runs |-> prev_run.runs + 1, dirs |-> out_dirs, files |-> out_files,
                    returned |-> generated_files]
    /\ pc' = "mkdirs"
    /\ exit_code' = "running"
    /\ UNCHANGED <<mergeVars, valVars, renderVars, guardVars, stdin, args_sources, script_yaml, raw_sources, target, quiet, source_files, nwarn, nloaded,
                   errors, out_dirs, out_files, dir_files, generated_files, jobs_done>>

-----------------------------------------------------------------------------
(* Inputs drawn for the merge *)

MergeItems ==
    {[name |-> n, description |-> d] : n \in {"f"}, d \in {"d1", "d2"}}
        \cup {[name |-> "g", description |-> "d1"]}
        \cup {[description |-> "d1"]}

OtherList == <<[name |-> "f", description |-> "d1"]>>

\* manifests whose list under `key` is drawn from lists; the other list is
\* absent or holds one item
ManifestsOn(key, lists) ==
    {[k \in {key} |-> l] : l \in lists}
        \cup {[k \in ListKeys |-> IF k = key THEN l ELSE OtherList] : l \in lists}

IdleMerge ==
    /\ base = NoManifest /\ extra = NoManifest /\ third = NoManifest
    /\ merged = Pending /\ left = Pending /\ right = Pending
    /\ mstep = "idle"

IdleValidate ==
    /\ vmanifest = NoManifest /\ verrors = <<>> /\ vexc = <<>> /\ vstep = "idle"

IdleMain ==
    /\ pc = "idle" /\ raw_sources = <<>> /\ target = "None" /\ quiet = FALSE
    /\ stdin = Tty /\ args_sources = <<>> /\ script_yaml = "file"
    /\ source_files = <<>> /\ nwarn = 0 /\ manifest = NoManifest /\ nloaded = 0
    /\ errors = <<>> /\ out_dirs = {} /\ out_files = NoFiles /\ dir_files = NoFiles
    /\ generated_files = <<>> /\ jobs_done = 0 /\ exit_code = "running"
    /\ prev_run = NoRun

IdleRender == rkind = "idle" /\ ritem = NoManifest /\ rendered = <<>>

IdleGuard == gguard = OtherValue /\ gshell = "idle" /\ glines = Pending

InitMerge ==
    /\ \E key \in ListKeys :
        /\ base \in ManifestsOn(key, SeqsUpTo(MergeItems, MaxBase))
        /\ extra \in ManifestsOn(key, SeqsUpTo(MergeItems, MaxExtra))
    /\ third = NoManifest
    /\ merged = Pending /\ left = Pending /\ right = Pending
    /\ mstep = "input"
    /\ IdleValidate /\ IdleMain /\ IdleRender /\ IdleGuard

\* merge_manifests(base, {}): every drawn base, and the empty dict, with {}
InitIdentity ==
    /\ base \in {NoManifest}
                \cup UNION {ManifestsOn(key, SeqsUpTo(MergeItems, MaxBase)) : key \in ListKeys}
    /\ extra = NoManifest
    /\ third = NoManifest
    /\ merged = Pending /\ left = Pending /\ right = Pending
    /\ mstep = "input"
    /\ IdleValidate /\ IdleMain /\ IdleRender /\ IdleGuard

InitAssoc ==
    /\ \E key \in ListKeys :
        /\ base \in {[k \in {key} |-> l] : l \in SeqsUpTo(MergeItems, MaxAssoc)}
        /\ extra \in {[k \in {key} |-> l] : l \in SeqsUpTo(MergeItems, MaxAssoc)}
        /\ third \in {[k \in {key} |-> l] : l \in SeqsUpTo(MergeItems, MaxAssoc - 1)}
    /\ merged = Pending /\ left = Pending /\ right = Pending
    /\ mstep = "input"
    /\ IdleValidate /\ IdleMain /\ IdleRender /\ IdleGuard

\* merged = merge_manifests(base, extra)
DoMerge ==
    /\ mstep = "input"
    /\ merged' = merge_manifests(base, extra)
    /\ mstep' = "merged"
    /\ UNCHANGED <<base, extra, third, left, right, valVars, mainVars, renderVars, guardVars>>

\* left = merge_manifests(merge_manifests(base, extra), third)
DoMergeLeft ==
    /\ mstep = "merged"
    /\ left' = MergeInto(merged, third)
    /\ mstep' = "left"
    /\ UNCHANGED <<base, extra, third, merged, right, valVars, mainVars, renderVars, guardVars>>

\* right = merge_manifests(base, merge_manifests(extra, third))
DoMergeRight ==
    /\ mstep = "left"
    /\ right' = MergeOnto(base, merge_manifests(extra, third))
    /\ mstep' = "assoc"
    /\ UNCHANGED <<base, extra, third, merged, left, valVars, mainVars, renderVars, guardVars>>

InitValidate ==
    /\ vmanifest \in ValidationManifests
    /\ verrors = <<>> /\ vexc = <<>> /\ vstep = "input"
    /\ IdleMerge /\ IdleMain /\ IdleRender /\ IdleGuard

\* the exceptions raised while generating every function and every module of
\* manifest m for one shell
GenerateExcs(m, shell) ==
    ({generate_function_exc(GetList(m, "functions")[i], shell) :
            i \in 1..Len(GetList(m, "functions"))}
     \cup {generate_module_exc(GetList(m, "modules")[i], shell) :
            i \in 1..Len(GetList(m, "modules"))}) \ {"None"}

\* verrors = validate_manifest(vmanifest)
DoValidate ==
    /\ vstep = "input"
    /\ verrors' = validate_manifest(vmanifest)
    /\ vstep' = "validated"
    /\ UNCHANGED <<vmanifest, vexc, mergeVars, mainVars, renderVars, guardVars>>

\* generate_function / generate_module on every item, for the next shell
DoGenerate ==
    /\ vstep = "validated"
    /\ Len(vexc) < Len(SHELLS)
    /\ vexc' = Append(vexc, GenerateExcs(vmanifest, SHELLS[Len(vexc) + 1]))
    /\ UNCHANGED <<vmanifest, verrors, vstep, mergeVars, mainVars, renderVars, guardVars>>


InitRender ==
    /\ rkind \in {"functions", "modules"}
    /\ ritem \in (IF rkind = "functions" THEN RenderFunctions ELSE RenderModules)
    /\ rendered = <<>>
    /\ IdleMerge /\ IdleValidate /\ IdleMain /\ IdleGuard

\* generate_function(ritem, shell) for the next shell
GenerateFunction ==
    /\ rkind = "functions"
    /\ Len(rendered) < Len(SHELLS)
    /\ rendered' = Append(rendered, generate_function(ritem, SHELLS[Len(rendered) + 1]))
    /\ UNCHANGED <<rkind, ritem, mergeVars, valVars, mainVars, guardVars>>

\* generate_module(ritem, shell) for the next shell
GenerateModule ==
    /\ rkind = "modules"
    /\ Len(rendered) < Len(SHELLS)
    /\ rendered' = Append(rendered, generate_module(ritem, SHELLS[Len(rendered) + 1]))
    /\ UNCHANGED <<rkind, ritem, mergeVars, valVars, mainVars, guardVars>>

\* the registered guards, each in the shape its templates take, with two
\* parameters each
RegisteredGuards ==
    {StrGuard("is_tty"), StrGuard("is_interactive")}
    \cup {DictGuard(key, Scalar(p)) :
            key \in {"command_exists", "env_not_set", "env_set", "file_exists", "dir_exists"},
            p \in {"EDITOR", "nvim"}}
    \cup {DictGuard(key, [t |-> "dict", d |-> d]) :
            key \in {"env_equals", "not_env_equals"},
            d \in {[var |-> "TERM", value |-> "xterm"], [var |-> "EDITOR", value |-> "vi"]}}

InitGuard ==
    /\ gguard \in RegisteredGuards
    /\ gshell \in {SHELLS[i] : i \in 1..Len(SHELLS)}
    /\ glines = Pending
    /\ IdleMerge /\ IdleValidate /\ IdleMain /\ IdleRender

\* translate_guard(G), translate_guard({not: G}), translate_guard_condition(G)
TranslateGuard ==
    /\ glines = Pending
    /\ glines' = [exc |-> "None",
                  bail |-> translate_guard(gguard, gshell),
                  not_bail |-> translate_guard(NotGuard(gguard), gshell),
                  cond |-> translate_guard_condition(gguard, gshell)]
    /\ UNCHANGED <<gguard, gshell, mergeVars, valVars, mainVars, renderVars>>

\* manifests that pass validation, for calls of generate_all
ValidManifests ==
    {m \in {ManifestA, ManifestB, ManifestLedgerName, ManifestSameFile, ManifestStrayIf,
            [functions |-> <<>>, modules |-> <<>>],
            [modules |-> <<ModFull @@ [k \in {"conditional"} |-> ExampleConditional]>>]} :
        validate_manifest(m) = <<>>}

\* generate_all is called with a valid manifest on an empty output tree
InitRerun ==
    /\ pc = "mkdirs"
    /\ manifest \in ValidManifests
    /\ target \in {"None", "/home/u/.config"}
    /\ quiet \in BOOLEAN
    /\ stdin = Tty /\ args_sources = <<>> /\ script_yaml = "file"
    /\ raw_sources = <<>> /\ source_files = <<>> /\ nwarn = 0 /\ nloaded = 0
    /\ errors = <<>> /\ out_dirs = {} /\ out_files = NoFiles /\ dir_files = NoFiles
    /\ generated_files = <<>> /\ jobs_done = 0 /\ exit_code = "running"
    /\ prev_run = NoRun
    /\ IdleMerge /\ IdleValidate /\ IdleRender /\ IdleGuard

\* generate_all is called with a valid manifest on an empty output tree
InitLedgers ==
    /\ pc = "mkdirs"
    /\ manifest \in LedgerManifests
    /\ target \in {"None", "/home/u/.config"}
    /\ quiet = TRUE
    /\ stdin = Tty /\ args_sources = <<>> /\ script_yaml = "file"
    /\ raw_sources = <<>> /\ source_files = <<>> /\ nwarn = 0 /\ nloaded = 0
    /\ errors = <<>> /\ out_dirs = {} /\ out_files = NoFiles /\ dir_files = NoFiles
    /\ generated_files = <<>> /\ jobs_done = 0 /\ exit_code = "running"
    /\ prev_run = NoRun
    /\ IdleMerge /\ IdleValidate /\ IdleRender /\ IdleGuard

\* paths given to resolve_sources: a file, a directory with shell.yaml, a
\* directory without, a path that names nothing
ResolvePaths == {"shell.yaml", "conf.d", "bare.d", "missing.yaml"}

\* main is started on up to MaxResolve paths, repeats included
InitResolve ==
    /\ pc = "start"
    /\ stdin = Tty
    /\ args_sources \in SeqsUpTo(ResolvePaths, MaxResolve)
    /\ script_yaml = "file"
    /\ raw_sources = <<>>
    /\ target = "None"
    /\ quiet \in BOOLEAN
    /\ source_files = <<>> /\ nwarn = 0 /\ manifest = NoManifest /\ nloaded = 0
    /\ errors = <<>> /\ out_dirs = {} /\ out_files = NoFiles /\ dir_files = NoFiles
    /\ generated_files = <<>> /\ jobs_done = 0 /\ exit_code = "running"
    /\ prev_run = NoRun
    /\ IdleMerge /\ IdleValidate /\ IdleRender /\ IdleGuard

\* lines piped into main: a path, a path inside whitespace, a blank line
StdinLines ==
    {Line("", "shell.yaml", "\n"), Line("  ", "work.yaml", " \n"), Line(" ", "", "\n")}

\* paths given as arguments next to piped lines
ArgPaths == {"shell.yaml", "work.yaml", "missing.yaml"}

\* main is started with or without piped lines and arguments;
\* script_dir/shell.yaml may be missing
InitSources ==
    /\ pc = "start"
    /\ stdin \in {Tty} \cup {Piped(ls) : ls \in SeqsUpTo(StdinLines, MaxStdin)}
    /\ args_sources \in SeqsUpTo(ArgPaths, MaxArgs)
    /\ script_yaml \in {"file", "missing"}
    /\ raw_sources = <<>>
    /\ target = "None"
    /\ quiet = TRUE
    /\ source_files = <<>> /\ nwarn = 0 /\ manifest = NoManifest /\ nloaded = 0
    /\ errors = <<>> /\ out_dirs = {} /\ out_files = NoFiles /\ dir_files = NoFiles
    /\ generated_files = <<>> /\ jobs_done = 0 /\ exit_code = "running"
    /\ prev_run = NoRun
    /\ IdleMerge /\ IdleValidate /\ IdleRender /\ IdleGuard

\* the values of a name field: absent, a name, null, the text 'null'
FieldValues(name) == {Pending, Str(name), None, Str("null")}

\* the dict with the keys whose value is not Pending
Present(d) == [k \in {x \in DOMAIN d : d[x] # Pending} |-> d[k]]

\* cli_tools entries: fields for macos, apt and raspi, the shorthand, and a
\* skip list
ToolEntries ==
    {Present([name |-> Str("t"), macos |-> mac, apt |-> apt, raspi |-> ras, pkg |-> short])
        @@ [k \in (IF skip = <<>> THEN {} ELSE {"skip"}) |-> skip] :
        mac \in FieldValues("t-macos"), apt \in FieldValues("t-apt"),
        ras \in {Pending, Str("t-raspi")}, short \in {Pending, Str("t"), None},
        skip \in {<<>>, <<"apt">>, <<"raspi">>, <<"macos", "msys2">>}}

OtherTool == [name |-> Str("u"), pkg |-> Str("u")]

\* macos_apps entries of the three kinds
MacApps ==
    <<[name |-> "App", mas_id |-> "123"], [name |-> "c", cask |-> "c"],
      [name |-> "b", brew |-> "b", brew_options |-> "restart_service: true"],
      [name |-> "plain"]>>

\* package manifests: one entry, or an entry between two others, with and
\* without macos_apps
PackageManifests ==
    {[cli_tools |-> <<e>>] : e \in ToolEntries}
    \cup {[cli_tools |-> <<OtherTool, e, OtherTool>>, macos_apps |-> MacApps] :
            e \in {x \in ToolEntries : "raspi" \notin DOMAIN x /\ "macos" \notin DOMAIN x}}
    \cup {[macos_apps |-> MacApps]}

InitPackages ==
    /\ rkind = "packages"
    /\ ritem \in PackageManifests
    /\ rendered = <<>>
    /\ IdleMerge /\ IdleValidate /\ IdleMain /\ IdleGuard

\* main: generate the text of the next platform
GeneratePackages ==
    /\ rkind = "packages"
    /\ Len(rendered) < Len(PLATFORMS)
    /\ rendered' = Append(rendered, Returned(PlatformText(ritem, PLATFORMS[Len(rendered) + 1])))
    /\ UNCHANGED <<rkind, ritem, mergeVars, valVars, mainVars, guardVars>>

InitPipeline == InitMain /\ IdleMerge /\ IdleValidate /\ IdleRender /\ IdleGuard

NextMerge == DoMerge
NextAssoc == DoMerge \/ DoMergeLeft \/ DoMergeRight
NextIdentity == DoMerge
NextValidate == DoValidate \/ DoGenerate
NextRender == GenerateFunction \/ GenerateModule
NextGuard == TranslateGuard
NextGenerate ==
    \/ GenerateFunction
    \/ GenerateModule
    \/ Resolve
    \/ LoadAndMerge
    \/ ValidateStep
    \/ MakeDirs
    \/ WriteFile
    \/ FilesDone
    \/ WriteLedger
    \/ Finish
Next ==
    \/ Resolve
    \/ LoadAndMerge
    \/ ValidateStep
    \/ MakeDirs
    \/ WriteFile
    \/ FilesDone
    \/ WriteLedger
    \/ Finish
NextRerun ==
    \/ MakeDirs
    \/ WriteFile
    \/ FilesDone
    \/ WriteLedger
    \/ Finish
    \/ Rerun
NextLedgers ==
    \/ MakeDirs
    \/ WriteFile
    \/ WriteFails
    \/ FilesDone
    \/ WriteLedger
    \/ Finish
    \/ Regenerate
NextResolve == Resolve
NextPackages == GeneratePackages
NextSources ==
    \/ Resolve
    \/ LoadAndMerge
    \/ ValidateStep
    \/ MakeDirs
    \/ WriteFile
    \/ FilesDone
    \/ WriteLedger
    \/ Finish

SpecMerge == InitMerge /\ [][NextMerge]_vars
SpecAssoc == InitAssoc /\ [][NextAssoc]_vars
SpecIdentity == InitIdentity /\ [][NextIdentity]_vars
SpecValidate == InitValidate /\ [][NextValidate]_vars
SpecRender == InitRender /\ [][NextRender]_vars
SpecGuard == InitGuard /\ [][NextGuard]_vars
SpecGenerate == (InitRender \/ InitPipeline) /\ [][NextGenerate]_vars
Spec == InitPipeline /\ [][Next]_vars
SpecRerun == InitRerun /\ [][NextRerun]_vars
SpecLedgers == InitLedgers /\ [][NextLedgers]_vars
SpecResolve == InitResolve /\ [][NextResolve]_vars
SpecPackages == InitPackages /\ [][NextPackages]_vars
SpecSources == InitSources /\ [][NextSources]_vars

-----------------------------------------------------------------------------
(* Properties of merge_manifests *)

Names(s) == {s[i].name : i \in 1..Len(s)}
Distinct(s) == \A i, j \in 1..Len(s) : i # j => s[i].name # s[j].name
FirstIdx(s, n) == CHOOSE i \in 1..Len(s) :
    s[i].name = n /\ \A j \in 1..(i - 1) : s[j].name # n
LastIdx(s, n) == CHOOSE i \in 1..Len(s) :
    s[i].name = n /\ \A j \in (i + 1)..Len(s) : s[j].name # n
\* names shared by base's and extra's list under key
Shared(key) == Names(GetList(base, key)) \cap Names(GetList(extra, key))
MergeDone == mstep # "input" /\ merged.exc = "None"

\* C1 as stated: a name of extra that base also has ends up exactly once in
\* the merged list, with extra's fields, at the position the base item had.
C1_Original ==
    MergeDone => \A key \in ListKeys : \A n \in Shared(key) :
        LET out == merged.val[key]
            b == GetList(base, key)
            e == GetList(extra, key)
        IN /\ Cardinality({p \in 1..Len(out) : out[p].name = n}) = 1
           /\ \E j \in 1..Len(e) : e[j].name = n /\ out[FirstIdx(out, n)] = e[j]
           /\ \E i \in 1..Len(b) : b[i].name = n /\ FirstIdx(out, n) = i

\* C1 (amended): a name of extra that base also has ends up exactly once in
\* the merged list, with the fields of extra's last item of that name, at the
\* rank its first occurrence has among the distinct names of base's list; that
\* is the base item's own position whenever base's names are pairwise distinct.
C1_MergeOverride ==
    MergeDone => \A key \in ListKeys : \A n \in Shared(key) :
        LET out == merged.val[key]
            b == GetList(base, key)
            e == GetList(extra, key)
            p == FirstIdx(out, n)
        IN /\ Cardinality({q \in 1..Len(out) : out[q].name = n}) = 1
           /\ out[p] = e[LastIdx(e, n)]
           /\ p = Cardinality({b[j].name : j \in 1..(FirstIdx(b, n) - 1)}) + 1
           /\ Distinct(b) => b[p].name = n

\* an override of a base item by an extra item with other fields, with
\* another base item in front of it
C1_Witness ==
    /\ MergeDone
    /\ \E n \in Shared("functions") :
        LET b == GetList(base, "functions")
            e == GetList(extra, "functions")
        IN /\ Distinct(b) /\ FirstIdx(b, n) = 2
           /\ e[LastIdx(e, n)] # b[2]
           /\ merged.val["functions"][2] = e[LastIdx(e, n)]

\* C2: the merged names are the distinct names of base's list followed by
\* extra's list in order of first occurrence, each with the value of its last
\* occurrence; names new in extra come after every name of base.
C2_MergeOrdering ==
    MergeDone => \A key \in ListKeys :
        LET in == MergeInput(base, extra, key)
            out == merged.val[key]
        IN /\ Distinct(out)
           /\ Names(out) = Names(in)
           /\ \A i, j \in 1..Len(out) :
                i < j => FirstIdx(in, out[i].name) < FirstIdx(in, out[j].name)
           /\ \A i \in 1..Len(out) : out[i] = in[LastIdx(in, out[i].name)]
           /\ \A i, j \in 1..Len(out) :
                (/\ out[i].name \in Names(GetList(base, key))
                 /\ out[j].name \notin Names(GetList(base, key))) => i < j

\* a repeated name inside base, a later override and a new name from extra
C2_Witness ==
    /\ MergeDone
    /\ ~Distinct(GetList(base, "modules"))
    /\ Shared("modules") # {}
    /\ Names(GetList(extra, "modules")) \ Names(GetList(base, "modules")) # {}
    /\ Len(merged.val["modules"]) = 2

\* C4: merge_manifests(merge_manifests(a, b), c) and
\* merge_manifests(a, merge_manifests(b, c)) have the same functions list and
\* the same modules list (and raise on the same inputs).
C4_MergeAssociative ==
    mstep = "assoc" =>
        /\ left.exc = right.exc
        /\ left.exc = "None" =>
            \A key \in ListKeys : left.val[key] = right.val[key]

\* a three-way merge in which one name occurs in all three manifests
C4_Witness ==
    /\ mstep = "assoc" /\ left.exc = "None"
    /\ \E n \in Names(GetList(base, "functions")) :
        /\ n \in Names(GetList(extra, "functions"))
        /\ n \in Names(GetList(third, "functions"))
        /\ ~Distinct(GetList(extra, "functions"))
    /\ Len(left.val["functions"]) = 2

-----------------------------------------------------------------------------
(* Properties of main: merging and the validation gate *)

\* C3: after every merge step of main's loop the merged manifest's functions
\* list has pairwise distinct names and so has its modules list.
C3_NamesUnique ==
    (pc # "idle" /\ manifest # NoManifest) =>
        \A key \in ListKeys : Distinct(manifest[key])

\* two sources merged, the second of which repeats a name of its own that
\* the first source has too
C3_Witness ==
    /\ pc = "merge" /\ nloaded = 2
    /\ source_files = <<"shell.yaml", "work.yaml">>
    /\ ~Distinct(load_manifest("work.yaml")["functions"])
    /\ Len(manifest["functions"]) = 2 /\ Len(manifest["modules"]) = 2

\* C5: generate_all runs only after validate_manifest returned no error for
\* the merged manifest; when it returns errors main returns 1 and no output
\* directory, generated file or ledger has been created.
C5_ValidationGatesGeneration ==
    /\ (pc \in {"mkdirs", "write", "ledgers"} \/ out_dirs # {} \/ out_files # NoFiles) =>
            /\ nloaded = Len(source_files)
            /\ errors = <<>>
            /\ validate_manifest(manifest) = <<>>
    /\ (pc = "done" /\ errors # <<>>) =>
            /\ exit_code = "1"
            /\ out_dirs = {} /\ out_files = NoFiles /\ generated_files = <<>>

\* a run over two sources that ended on validation errors
C5_Witness ==
    /\ pc = "done" /\ nloaded = 2 /\ errors # <<>> /\ exit_code = "1"
    /\ Len(manifest["functions"]) = 2

-----------------------------------------------------------------------------
(* Properties of validate_manifest and the generators *)

Items(key) == {GetList(vmanifest, key)[i] : i \in 1..Len(GetList(vmanifest, key))}

\* the exceptions of the renderer for an unknown guard or predicate
UnknownCheckErrors ==
    {"ValueError: Unknown string guard", "ValueError: Unknown dict guard",
     "ValueError: Invalid guard type", "KeyError: PREDICATES"}

\* C6: for a manifest that validate_manifest accepts, generating every
\* function and module for every shell never raises the renderer's
\* unknown-guard or unknown-predicate error.
C6_ValidationShieldsRenderer ==
    (vstep = "validated" /\ verrors = <<>>) =>
        \A i \in 1..Len(vexc) : vexc[i] \cap UnknownCheckErrors = {}

\* the guard names a check that is not in the registry (looking through 'not')
RECURSIVE NamesUnknownCheck(_)
NamesUnknownCheck(g) ==
    IF IsNot(g) THEN NamesUnknownCheck(g.value)
    ELSE \/ g.t = "str" /\ g.s \notin DOMAIN GUARDS
         \/ g.t = "dict" /\ g.key \notin DOMAIN GUARDS

\* the guards the generators translate for a module: its guard / guards
\* entries and the condition of every conditional branch
TranslatedGuards(mod) ==
    {_collect_guards(mod)[i] : i \in 1..Len(_collect_guards(mod))}
    \cup (IF "conditional" \in DOMAIN mod /\ mod["conditional"].t = "list"
          THEN LET bs == mod["conditional"].items
               IN {bs[i].d["if"] : i \in {j \in 1..Len(bs) :
                        bs[j].t = "dict" /\ "if" \in DOMAIN bs[j].d}}
                  \cup {bs[i].d["elif"] : i \in {j \in 1..Len(bs) :
                        bs[j].t = "dict" /\ "if" \notin DOMAIN bs[j].d
                        /\ "elif" \in DOMAIN bs[j].d}}
          ELSE {})

\* C7: a manifest in which a guard the generators would translate names an
\* unknown check, or a function's predicate is not in the predicate table,
\* gets at least one validation error.
C7_UnknownChecksRejected ==
    vstep = "validated" =>
        ((\/ \E mod \in Items("modules") : \E g \in TranslatedGuards(mod) :
                NamesUnknownCheck(g)
          \/ \E func \in Items("functions") :
                "predicate" \in DOMAIN func /\ func["predicate"] \notin DOMAIN PREDICATES)
         => verrors # <<>>)

\* the error string contains the field's name: with the messages the
\* validator has and the item names drawn, only a missing-field error does
Mentions(e, field) == e.msg = "missing required field" /\ e.arg = field

RequiredOf(key) ==
    IF key = "functions" THEN {"name", "description"} ELSE {"name", "prefix", "description"}

\* the guard resolves to a known check (looking through 'not')
RECURSIVE Resolves(_)
Resolves(g) ==
    IF IsNot(g) THEN Resolves(g.value)
    ELSE \/ g.t = "str" /\ g.s \in DOMAIN GUARDS
         \/ g.t = "dict" /\ g.key \in DOMAIN GUARDS

HasBranchBody(d) == \E k \in BODY_KEYS \ {"conditional"} : k \in DOMAIN d

\* the shape section 4.2 of the specification asks of a conditional
ConditionalShapeOk(cond) ==
    /\ cond.t = "list" /\ Len(cond.items) > 0
    /\ cond.items[1].t = "dict"
    /\ "if" \in DOMAIN cond.items[1].d
    /\ Resolves(cond.items[1].d["if"])
    /\ \A i \in 2..Len(cond.items) :
        /\ cond.items[i].t = "dict"
        /\ ("elif" \in DOMAIN cond.items[i].d) # ("else" \in DOMAIN cond.items[i].d)
    /\ \A i \in 1..Len(cond.items) : HasBranchBody(cond.items[i].d)

\* a manifest that meets every rule of section 4.2 of the specification
StructurallyValid(m) ==
    /\ \A i \in 1..Len(GetList(m, "functions")) :
        LET func == GetList(m, "functions")[i]
        IN /\ {"name", "description"} \subseteq DOMAIN func
           /\ "predicate" \in DOMAIN func \/ "body" \in DOMAIN func
           /\ "predicate" \in DOMAIN func => func["predicate"] \in DOMAIN PREDICATES
    /\ \A i \in 1..Len(GetList(m, "modules")) :
        LET mod == GetList(m, "modules")[i]
        IN /\ {"name", "prefix", "description"} \subseteq DOMAIN mod
           /\ \E k \in BODY_KEYS : k \in DOMAIN mod
           /\ "env" \in DOMAIN mod =>
                /\ mod["env"].t = "dict"
                /\ \A j \in 1..Len(mod["env"].entries) :
                    /\ mod["env"].entries[j].ktype = "str"
                    /\ mod["env"].entries[j].vtype \in {"str", "int", "float"}
           /\ "source_file" \in DOMAIN mod =>
                \/ mod["source_file"].t = "str"
                \/ /\ mod["source_file"].t = "list"
                   /\ \A j \in 1..Len(mod["source_file"].items) :
                        mod["source_file"].items[j].t = "str"
           /\ "eval_command" \in DOMAIN mod => mod["eval_command"].t = "str"
           /\ "conditional" \in DOMAIN mod =>
                /\ ConditionalShapeOk(mod["conditional"])
                /\ \A j \in 2..Len(mod["conditional"].items) :
                    "elif" \in DOMAIN mod["conditional"].items[j].d =>
                        Resolves(mod["conditional"].items[j].d["elif"])
           /\ \A j \in 1..Len(_collect_guards(mod)) : Resolves(_collect_guards(mod)[j])

\* C8 as stated: every required field missing on an item yields an error
\* string containing the field's name, and a structurally valid manifest
\* yields no error.
C8_Original ==
    vstep = "validated" =>
        /\ \A key \in ListKeys : \A item \in Items(key) :
            \A field \in RequiredOf(key) \ DOMAIN item :
                \E i \in 1..Len(verrors) : Mentions(verrors[i], field)
        /\ StructurallyValid(vmanifest) => verrors = <<>>

\* C8 (amended): a missing name yields an error of that list position
\* containing 'name'; every other required field missing on an item that has
\* a name yields an error of that item containing the field's name (the
\* other fields of an item without a name are not checked); a structurally
\* valid manifest yields no error.
C8_ValidationCompleteness ==
    vstep = "validated" =>
        /\ \A key \in ListKeys : \A i \in 1..Len(GetList(vmanifest, key)) :
            LET item == GetList(vmanifest, key)[i]
                kind == IF key = "functions" THEN "function" ELSE "module"
            IN IF "name" \notin DOMAIN item
               THEN \E j \in 1..Len(verrors) :
                        /\ Mentions(verrors[j], "name")
                        /\ verrors[j].ctx = key \o "[" \o ToString(i - 1) \o "]"
               ELSE \A field \in RequiredOf(key) \ DOMAIN item :
                        \E j \in 1..Len(verrors) :
                            /\ Mentions(verrors[j], field)
                            /\ verrors[j].ctx = kind \o " '" \o item["name"] \o "'"
        /\ StructurallyValid(vmanifest) => verrors = <<>>

\* a module with a name that lacks both prefix and description, reported twice
C8_Witness ==
    /\ vstep = "validated"
    /\ \E mod \in Items("modules") :
        /\ "name" \in DOMAIN mod
        /\ {"prefix", "description"} \cap DOMAIN mod = {}
    /\ \E i, j \in 1..Len(verrors) :
        Mentions(verrors[i], "prefix") /\ Mentions(verrors[j], "description")

\* a structurally valid manifest with a guard and a conditional went through
C8_WitnessValid ==
    /\ vstep = "validated" /\ verrors = <<>> /\ StructurallyValid(vmanifest)
    /\ \E mod \in Items("modules") : "conditional" \in DOMAIN mod

\* C9: a function with neither predicate nor body, and a function with both,
\* each yield a validation error.
C9_BodyExclusivity ==
    vstep = "validated" =>
        \A func \in Items("functions") :
            (("predicate" \in DOMAIN func) = ("body" \in DOMAIN func)) => verrors # <<>>

\* C10: a module whose conditional is not a non-empty list, whose first
\* element lacks an 'if' with a known guard, one of whose later elements has
\* not exactly one of 'elif' / 'else', or one of whose elements has no body
\* key, gets at least one validation error.
C10_ConditionalShape ==
    vstep = "validated" =>
        \A mod \in Items("modules") :
            ("conditional" \in DOMAIN mod /\ ~ConditionalShapeOk(mod["conditional"]))
                => verrors # <<>>

\* a module, complete otherwise, whose second branch has both 'elif' and
\* 'else' and a body, was rejected
C10_Witness ==
    /\ vstep = "validated"
    /\ verrors # <<>>
    /\ \E mod \in Items("modules") :
        /\ Required \subseteq DOMAIN mod
        /\ "conditional" \in DOMAIN mod
        /\ mod["conditional"].t = "list" /\ Len(mod["conditional"].items) = 2
        /\ ConditionalShapeOk([mod["conditional"] EXCEPT !.items = <<@[1]>>])
        /\ mod["conditional"].items[2].t = "dict"
        /\ {"elif", "else", "env"} \subseteq DOMAIN mod["conditional"].items[2].d

-----------------------------------------------------------------------------
(* Properties of the generated text *)

\* the item drawn for rendering passes validation
Accepted ==
    /\ rkind \in {"functions", "modules"}
    /\ validate_manifest([k \in {rkind} |-> <<ritem>>]) = <<>>

\* the paths of the .gitignore files
LedgerPaths == {OutputDirList(target)[i] \o "/.gitignore" : i \in 1..Len(OutputDirList(target))}

C11_WitnessRender ==
    /\ Accepted /\ rkind = "modules" /\ Len(rendered) = 4
    /\ rendered[4].exc = "None" /\ rendered[4].val[1] = HEADER
    /\ "guards" \in DOMAIN ritem /\ "conditional" \in DOMAIN ritem

\* C12: for every shell and every item accepted by validation, the text a
\* generator returns ends with exactly one newline: its last line is not
\* empty.
C12_SingleTrailingNewline ==
    Accepted =>
        \A i \in 1..Len(rendered) :
            rendered[i].exc = "None" => rendered[i].val[Len(rendered[i].val)] # ""

\* the set of the elements of a sequence
Range(s) == {s[i] : i \in 1..Len(s)}

\* the guards a module declares: its guards list, else its single guard
DeclaredGuards(mod) ==
    IF "guards" \in DOMAIN mod THEN mod["guards"]
    ELSE IF "guard" \in DOMAIN mod THEN <<mod["guard"]>>
    ELSE <<>>

\* the bail lines of the declared guards, in declared order
BailLines(mod, shell) ==
    [j \in 1..Len(DeclaredGuards(mod)) |-> translate_guard(DeclaredGuards(mod)[j], shell).val]

\* the number of header and comment lines of a module's text
CommentLines(mod) ==
    2 + (IF "url" \in DOMAIN mod THEN 1 ELSE 0) + (IF "comment" \in DOMAIN mod THEN 1 ELSE 0)

\* the non-empty lines the body constructs and the conditional block of a
\* module render to
BodyAndBlockLines(mod, shell) ==
    (Range(_render_body_lines(mod, shell).val)
     \cup (IF "conditional" \in DOMAIN mod
           THEN Range(_render_conditional(mod["conditional"], shell).val) ELSE {}))
    \ {""}

\* C13: for every module and shell, the text of generate_module holds exactly
\* one bail line per declared guard, in declared order, all of them after the
\* header and comment lines and before every body line and every line of the
\* conditional block.
C13_GuardOrder ==
    rkind = "modules" =>
        \A i \in 1..Len(rendered) :
            rendered[i].exc = "None" =>
                LET text == rendered[i].val
                    bail == BailLines(ritem, SHELLS[i])
                    body == BodyAndBlockLines(ritem, SHELLS[i])
                IN /\ SelectSeq(text, LAMBDA l : l \in Range(bail)) = bail
                   /\ \A p \in 1..Len(text) :
                        text[p] \in Range(bail) =>
                            /\ p > CommentLines(ritem)
                            /\ \A q \in 1..Len(text) : text[q] \in body => p < q

\* a module with two different guards, a body and an env entry was generated
\* for all shells
C13_Witness ==
    /\ rkind = "modules" /\ Len(rendered) = 4
    /\ \A i \in 1..4 : rendered[i].exc = "None"
    /\ "guards" \in DOMAIN ritem /\ Len(ritem["guards"]) = 2
    /\ ritem["guards"][1] # ritem["guards"][2]
    /\ {"env", "body"} \subseteq DOMAIN ritem
    /\ BodyAndBlockLines(ritem, "bash") # {}

-----------------------------------------------------------------------------
(* Properties of guard translation *)

\* What the guard lines mean in their shell, line by line.  A bail line
\* returns from the file when its expression evaluates to `on`; a condition
\* is its expression.  The expression is the outcome of `test`, negated when
\* `neg` holds (not / ! / -not, != and -ne against = and -eq, -z against -n).
LineMeaning ==
    [ fish |-> (
        "isatty stdin; or return 0" :>
            [kind |-> "bail", on |-> FALSE, neg |-> FALSE, test |-> "isatty stdin"] @@
        "isatty stdin; and return 0" :>
            [kind |-> "bail", on |-> TRUE, neg |-> FALSE, test |-> "isatty stdin"] @@
        "isatty stdin" :>
            [kind |-> "cond", on |-> TRUE, neg |-> FALSE, test |-> "isatty stdin"] @@
        "status is-interactive; or return 0" :>
            [kind |-> "bail", on |-> FALSE, neg |-> FALSE, test |-> "status is-interactive"] @@
        "status is-interactive; and return 0" :>
            [kind |-> "bail", on |-> TRUE, neg |-> FALSE, test |-> "status is-interactive"] @@
        "status is-interactive" :>
            [kind |-> "cond", on |-> TRUE, neg |-> FALSE, test |-> "status is-interactive"] @@
        "command -q EDITOR; or return 0" :>
            [kind |-> "bail", on |-> FALSE, neg |-> FALSE, test |-> "command -q EDITOR"] @@
        "command -q EDITOR; and return 0" :>
            [kind |-> "bail", on |-> TRUE, neg |-> FALSE, test |-> "command -q EDITOR"] @@
        "command -q EDITOR" :>
            [kind |-> "cond", on |-> TRUE, neg |-> FALSE, test |-> "command -q EDITOR"] @@
        "command -q nvim; or return 0" :>
            [kind |-> "bail", on |-> FALSE, neg |-> FALSE, test |-> "command -q nvim"] @@
        "command -q nvim; and return 0" :>
            [kind |-> "bail", on |-> TRUE, neg |-> FALSE, test |-> "command -q nvim"] @@
        "command -q nvim" :>
            [kind |-> "cond", on |-> TRUE, neg |-> FALSE, test |-> "command -q nvim"] @@
        "not set -q EDITOR; or return 0" :>
            [kind |-> "bail", on |-> FALSE, neg |-> TRUE, test |-> "set -q EDITOR"] @@
        "not set -q EDITOR; and return 0" :>
            [kind |-> "bail", on |-> TRUE, neg |-> TRUE, test |-> "set -q EDITOR"] @@
        "not set -q EDITOR" :>
            [kind |-> "cond", on |-> TRUE, neg |-> TRUE, test |-> "set -q EDITOR"] @@
        "not set -q nvim; or return 0" :>
            [kind |-> "bail", on |-> FALSE, neg |-> TRUE, test |-> "set -q nvim"] @@
        "not set -q nvim; and return 0" :>
            [kind |-> "bail", on |-> TRUE, neg |-> TRUE, test |-> "set -q nvim"] @@
        "not set -q nvim" :>
            [kind |-> "cond", on |-> TRUE, neg |-> TRUE, test |-> "set -q nvim"] @@
        "set -q EDITOR; or return 0" :>
            [kind |-> "bail", on |-> FALSE, neg |-> FALSE, test |-> "set -q EDITOR"] @@
        "set -q EDITOR; and return 0" :>
            [kind |-> "bail", on |-> TRUE, neg |-> FALSE, test |-> "set -q EDITOR"] @@
        "set -q EDITOR" :>
            [kind |-> "cond", on |-> TRUE, neg |-> FALSE, test |-> "set -q EDITOR"] @@
        "set -q nvim; or return 0" :>
            [kind |-> "bail", on |-> FALSE, neg |-> FALSE, test |-> "set -q nvim"] @@
        "set -q nvim; and return 0" :>
            [kind |-> "bail", on |-> TRUE, neg |-> FALSE, test |-> "set -q nvim"] @@
        "set -q nvim" :>
            [kind |-> "cond", on |-> TRUE, neg |-> FALSE, test |-> "set -q nvim"] @@
        "test -f EDITOR; or return 0" :>
            [kind |-> "bail", on |-> FALSE, neg |-> FALSE, test |-> "test -f EDITOR"] @@
        "test -f EDITOR; and return 0" :>
            [kind |-> "bail", on |-> TRUE, neg |-> FALSE, test |-> "test -f EDITOR"] @@
        "test -f EDITOR" :>
            [kind |-> "cond", on |-> TRUE, neg |-> FALSE, test |-> "test -f EDITOR"] @@
        "test -f nvim; or return 0" :>
            [kind |-> "bail", on |-> FALSE, neg |-> FALSE, test |-> "test -f nvim"] @@
        "test -f nvim; and return 0" :>
            [kind |-> "bail", on |-> TRUE, neg |-> FALSE, test |-> "test -f nvim"] @@
        "test -f nvim" :>
            [kind |-> "cond", on |-> TRUE, neg |-> FALSE, test |-> "test -f nvim"] @@
        "test -d EDITOR; or return 0" :>
            [kind |-> "bail", on |-> FALSE, neg |-> FALSE, test |-> "test -d EDITOR"] @@
        "test -d EDITOR; and return 0" :>
            [kind |-> "bail", on |-> TRUE, neg |-> FALSE, test |-> "test -d EDITOR"] @@
        "test -d EDITOR" :>
            [kind |-> "cond", on |-> TRUE, neg |-> FALSE, test |-> "test -d EDITOR"] @@
        "test -d nvim; or return 0" :>
            [kind |-> "bail", on |-> FALSE, neg |-> FALSE, test |-> "test -d nvim"] @@
        "test -d nvim; and return 0" :>
            [kind |-> "bail", on |-> TRUE, neg |-> FALSE, test |-> "test -d nvim"] @@
        "test -d nvim" :>
            [kind |-> "cond", on |-> TRUE, neg |-> FALSE, test |-> "test -d nvim"] @@
        "test \"$TERM\" = \"xterm\"; or return 0" :>
            [kind |-> "bail", on |-> FALSE, neg |-> FALSE, test |-> "test \"$TERM\" = \"xterm\""] @@
        "test \"$TERM\" = \"xterm\"; and return 0" :>
            [kind |-> "bail", on |-> TRUE, neg |-> FALSE, test |-> "test \"$TERM\" = \"xterm\""] @@
        "test \"$TERM\" = \"xterm\"" :>
            [kind |-> "cond", on |-> TRUE, neg |-> FALSE, test |-> "test \"$TERM\" = \"xterm\""] @@
        "test \"$EDITOR\" = \"vi\"; or return 0" :>
            [kind |-> "bail", on |-> FALSE, neg |-> FALSE, test |-> "test \"$EDITOR\" = \"vi\""] @@
        "test \"$EDITOR\" = \"vi\"; and return 0" :>
            [kind |-> "bail", on |-> TRUE, neg |-> FALSE, test |-> "test \"$EDITOR\" = \"vi\""] @@
        "test \"$EDITOR\" = \"vi\"" :>
            [kind |-> "cond", on |-> TRUE, neg |-> FALSE, test |-> "test \"$EDITOR\" = \"vi\""] @@
        "test \"$TERM\" != \"xterm\"; or return 0" :>
            [kind |-> "bail", on |-> FALSE, neg |-> TRUE, test |-> "test \"$TERM\" = \"xterm\""] @@
        "test \"$TERM\" != \"xterm\"; and return 0" :>
            [kind |-> "bail", on |-> TRUE, neg |-> TRUE, test |-> "test \"$TERM\" = \"xterm\""] @@
        "test \"$TERM\" != \"xterm\"" :>
            [kind |-> "cond", on |-> TRUE, neg |-> TRUE, test |-> "test \"$TERM\" = \"xterm\""] @@
        "test \"$EDITOR\" != \"vi\"; or return 0" :>
            [kind |-> "bail", on |-> FALSE, neg |-> TRUE, test |-> "test \"$EDITOR\" = \"vi\""] @@
        "test \"$EDITOR\" != \"vi\"; and return 0" :>
            [kind |-> "bail", on |-> TRUE, neg |-> TRUE, test |-> "test \"$EDITOR\" = \"vi\""] @@
        "test \"$EDITOR\" != \"vi\"" :>
            [kind |-> "cond", on |-> TRUE, neg |-> TRUE, test |-> "test \"$EDITOR\" = \"vi\""]
      ),
      zsh |-> (
        "[[ -t 0 ]] || return 0" :>
            [kind |-> "bail", on |-> FALSE, neg |-> FALSE, test |-> "[[ -t 0 ]]"] @@
        "[[ -t 0 ]] && return 0" :>
            [kind |-> "bail", on |-> TRUE, neg |-> FALSE, test |-> "[[ -t 0 ]]"] @@
        "[[ -t 0 ]]" :>
            [kind |-> "cond", on |-> TRUE, neg |-> FALSE, test |-> "[[ -t 0 ]]"] @@
        "[[ -o interactive ]] || return 0" :>
            [kind |-> "bail", on |-> FALSE, neg |-> FALSE, test |-> "[[ -o interactive ]]"] @@
        "[[ -o interactive ]] && return 0" :>
            [kind |-> "bail", on |-> TRUE, neg |-> FALSE, test |-> "[[ -o interactive ]]"] @@
        "[[ -o interactive ]]" :>
            [kind |-> "cond", on |-> TRUE, neg |-> FALSE, test |-> "[[ -o interactive ]]"] @@
        "(( $+commands[EDITOR] )) || return 0" :>
            [kind |-> "bail", on |-> FALSE, neg |-> FALSE, test |-> "(( $+commands[EDITOR] ))"] @@
        "(( $+commands[EDITOR] )) && return 0" :>
            [kind |-> "bail", on |-> TRUE, neg |-> FALSE, test |-> "(( $+commands[EDITOR] ))"] @@
        "(( $+commands[EDITOR] ))" :>
            [kind |-> "cond", on |-> TRUE, neg |-> FALSE, test |-> "(( $+commands[EDITOR] ))"] @@
        "(( $+commands[nvim] )) || return 0" :>
            [kind |-> "bail", on |-> FALSE, neg |-> FALSE, test |-> "(( $+commands[nvim] ))"] @@
        "(( $+commands[nvim] )) && return 0" :>
            [kind |-> "bail", on |-> TRUE, neg |-> FALSE, test |-> "(( $+commands[nvim] ))"] @@
        "(( $+commands[nvim] ))" :>
            [kind |-> "cond", on |-> TRUE, neg |-> FALSE, test |-> "(( $+commands[nvim] ))"] @@
        "[[ -z $EDITOR ]] || return 0" :>
            [kind |-> "bail", on |-> FALSE, neg |-> TRUE, test |-> "[[ -n $EDITOR ]]"] @@
        "[[ -z $EDITOR ]] && return 0" :>
            [kind |-> "bail", on |-> TRUE, neg |-> TRUE, test |-> "[[ -n $EDITOR ]]"] @@
        "[[ -z $EDITOR ]]" :>
            [kind |-> "cond", on |-> TRUE, neg |-> TRUE, test |-> "[[ -n $EDITOR ]]"] @@
        "[[ -z $nvim ]] || return 0" :>
            [kind |-> "bail", on |-> FALSE, neg |-> TRUE, test |-> "[[ -n $nvim ]]"] @@
        "[[ -z $nvim ]] && return 0" :>
            [kind |-> "bail", on |-> TRUE, neg |-> TRUE, test |-> "[[ -n $nvim ]]"] @@
        "[[ -z $nvim ]]" :>
            [kind |-> "cond", on |-> TRUE, neg |-> TRUE, test |-> "[[ -n $nvim ]]"] @@
        "[[ -n $EDITOR ]] || return 0" :>
            [kind |-> "bail", on |-> FALSE, neg |-> FALSE, test |-> "[[ -n $EDITOR ]]"] @@
        "[[ -n $EDITOR ]] && return 0" :>
            [kind |-> "bail", on |-> TRUE, neg |-> FALSE, test |-> "[[ -n $EDITOR ]]"] @@
        "[[ -n $EDITOR ]]" :>
            [kind |-> "cond", on |-> TRUE, neg |-> FALSE, test |-> "[[ -n $EDITOR ]]"] @@
        "[[ -n $nvim ]] || return 0" :>
            [kind |-> "bail", on |-> FALSE, neg |-> FALSE, test |-> "[[ -n $nvim ]]"] @@
        "[[ -n $nvim ]] && return 0" :>
            [kind |-> "bail", on |-> TRUE, neg |-> FALSE, test |-> "[[ -n $nvim ]]"] @@
        "[[ -n $nvim ]]" :>
            [kind |-> "cond", on |-> TRUE, neg |-> FALSE, test |-> "[[ -n $nvim ]]"] @@
        "[[ -f EDITOR ]] || return 0" :>
            [kind |-> "bail", on |-> FALSE, neg |-> FALSE, test |-> "[[ -f EDITOR ]]"] @@
        "[[ -f EDITOR ]] && return 0" :>
            [kind |-> "bail", on |-> TRUE, neg |-> FALSE, test |-> "[[ -f EDITOR ]]"] @@
        "[[ -f EDITOR ]]" :>
            [kind |-> "cond", on |-> TRUE, neg |-> FALSE, test |-> "[[ -f EDITOR ]]"] @@
        "[[ -f nvim ]] || return 0" :>
            [kind |-> "bail", on |-> FALSE, neg |-> FALSE, test |-> "[[ -f nvim ]]"] @@
        "[[ -f nvim ]] && return 0" :>
            [kind |-> "bail", on |-> TRUE, neg |-> FALSE, test |-> "[[ -f nvim ]]"] @@
        "[[ -f nvim ]]" :>
            [kind |-> "cond", on |-> TRUE, neg |-> FALSE, test |-> "[[ -f nvim ]]"] @@
        "[[ -d EDITOR ]] || return 0" :>
            [kind |-> "bail", on |-> FALSE, neg |-> FALSE, test |-> "[[ -d EDITOR ]]"] @@
        "[[ -d EDITOR ]] && return 0" :>
            [kind |-> "bail", on |-> TRUE, neg |-> FALSE, test |-> "[[ -d EDITOR ]]"] @@
        "[[ -d EDITOR ]]" :>
            [kind |-> "cond", on |-> TRUE, neg |-> FALSE, test |-> "[[ -d EDITOR ]]"] @@
        "[[ -d nvim ]] || return 0" :>
            [kind |-> "bail", on |-> FALSE, neg |-> FALSE, test |-> "[[ -d nvim ]]"] @@
        "[[ -d nvim ]] && return 0" :>
            [kind |-> "bail", on |-> TRUE, neg |-> FALSE, test |-> "[[ -d nvim ]]"] @@
        "[[ -d nvim ]]" :>
            [kind |-> "cond", on |-> TRUE, neg |-> FALSE, test |-> "[[ -d nvim ]]"] @@
        "[[ \"$TERM\" == \"xterm\" ]] || return 0" :>
            [kind |-> "bail", on |-> FALSE, neg |-> FALSE, test |-> "[[ \"$TERM\" == \"xterm\" ]]"] @@
        "[[ \"$TERM\" == \"xterm\" ]] && return 0" :>
            [kind |-> "bail", on |-> TRUE, neg |-> FALSE, test |-> "[[ \"$TERM\" == \"xterm\" ]]"] @@
        "[[ \"$TERM\" == \"xterm\" ]]" :>
            [kind |-> "cond", on |-> TRUE, neg |-> FALSE, test |-> "[[ \"$TERM\" == \"xterm\" ]]"] @@
        "[[ \"$EDITOR\" == \"vi\" ]] || return 0" :>
            [kind |-> "bail", on |-> FALSE, neg |-> FALSE, test |-> "[[ \"$EDITOR\" == \"vi\" ]]"] @@
        "[[ \"$EDITOR\" == \"vi\" ]] && return 0" :>
            [kind |-> "bail", on |-> TRUE, neg |-> FALSE, test |-> "[[ \"$EDITOR\" == \"vi\" ]]"] @@
        "[[ \"$EDITOR\" == \"vi\" ]]" :>
            [kind |-> "cond", on |-> TRUE, neg |-> FALSE, test |-> "[[ \"$EDITOR\" == \"vi\" ]]"] @@
        "[[ \"$TERM\" != \"xterm\" ]] || return 0" :>
            [kind |-> "bail", on |-> FALSE, neg |-> TRUE, test |-> "[[ \"$TERM\" == \"xterm\" ]]"] @@
        "[[ \"$TERM\" != \"xterm\" ]] && return 0" :>
            [kind |-> "bail", on |-> TRUE, neg |-> TRUE, test |-> "[[ \"$TERM\" == \"xterm\" ]]"] @@
        "[[ \"$TERM\" != \"xterm\" ]]" :>
            [kind |-> "cond", on |-> TRUE, neg |-> TRUE, test |-> "[[ \"$TERM\" == \"xterm\" ]]"] @@
        "[[ \"$EDITOR\" != \"vi\" ]] || return 0" :>
            [kind |-> "bail", on |-> FALSE, neg |-> TRUE, test |-> "[[ \"$EDITOR\" == \"vi\" ]]"] @@
        "[[ \"$EDITOR\" != \"vi\" ]] && return 0" :>
            [kind |-> "bail", on |-> TRUE, neg |-> TRUE, test |-> "[[ \"$EDITOR\" == \"vi\" ]]"] @@
        "[[ \"$EDITOR\" != \"vi\" ]]" :>
            [kind |-> "cond", on |-> TRUE, neg |-> TRUE, test |-> "[[ \"$EDITOR\" == \"vi\" ]]"]
      ),
      bash |-> (
        "[[ -t 0 ]] || return 0" :>
            [kind |-> "bail", on |-> FALSE, neg |-> FALSE, test |-> "[[ -t 0 ]]"] @@
        "[[ -t 0 ]] && return 0" :>
            [kind |-> "bail", on |-> TRUE, neg |-> FALSE, test |-> "[[ -t 0 ]]"] @@
        "[[ -t 0 ]]" :>
            [kind |-> "cond", on |-> TRUE, neg |-> FALSE, test |-> "[[ -t 0 ]]"] @@
        "[[ $- == *i* ]] || return 0" :>
            [kind |-> "bail", on |-> FALSE, neg |-> FALSE, test |-> "[[ $- == *i* ]]"] @@
        "[[ $- == *i* ]] && return 0" :>
            [kind |-> "bail", on |-> TRUE, neg |-> FALSE, test |-> "[[ $- == *i* ]]"] @@
        "[[ $- == *i* ]]" :>
            [kind |-> "cond", on |-> TRUE, neg |-> FALSE, test |-> "[[ $- == *i* ]]"] @@
        "command -v EDITOR &>/dev/null || return 0" :>
            [kind |-> "bail", on |-> FALSE, neg |-> FALSE, test |-> "command -v EDITOR &>/dev/null"] @@
        "command -v EDITOR &>/dev/null && return 0" :>
            [kind |-> "bail", on |-> TRUE, neg |-> FALSE, test |-> "command -v EDITOR &>/dev/null"] @@
        "command -v EDITOR &>/dev/null" :>
            [kind |-> "cond", on |-> TRUE, neg |-> FALSE, test |-> "command -v EDITOR &>/dev/null"] @@
        "command -v nvim &>/dev/null || return 0" :>
            [kind |-> "bail", on |-> FALSE, neg |-> FALSE, test |-> "command -v nvim &>/dev/null"] @@
        "command -v nvim &>/dev/null && return 0" :>
            [kind |-> "bail", on |-> TRUE, neg |-> FALSE, test |-> "command -v nvim &>/dev/null"] @@
        "command -v nvim &>/dev/null" :>
            [kind |-> "cond", on |-> TRUE, neg |-> FALSE, test |-> "command -v nvim &>/dev/null"] @@
        "[[ -z \"$EDITOR\" ]] || return 0" :>
            [kind |-> "bail", on |-> FALSE, neg |-> TRUE, test |-> "[[ -n \"$EDITOR\" ]]"] @@
        "[[ -z \"$EDITOR\" ]] && return 0" :>
            [kind |-> "bail", on |-> TRUE, neg |-> TRUE, test |-> "[[ -n \"$EDITOR\" ]]"] @@
        "[[ -z \"$EDITOR\" ]]" :>
            [kind |-> "cond", on |-> TRUE, neg |-> TRUE, test |-> "[[ -n \"$EDITOR\" ]]"] @@
        "[[ -z \"$nvim\" ]] || return 0" :>
            [kind |-> "bail", on |-> FALSE, neg |-> TRUE, test |-> "[[ -n \"$nvim\" ]]"] @@
        "[[ -z \"$nvim\" ]] && return 0" :>
            [kind |-> "bail", on |-> TRUE, neg |-> TRUE, test |-> "[[ -n \"$nvim\" ]]"] @@
        "[[ -z \"$nvim\" ]]" :>
            [kind |-> "cond", on |-> TRUE, neg |-> TRUE, test |-> "[[ -n \"$nvim\" ]]"] @@
        "[[ -n \"$EDITOR\" ]] || return 0" :>
            [kind |-> "bail", on |-> FALSE, neg |-> FALSE, test |-> "[[ -n \"$EDITOR\" ]]"] @@
        "[[ -n \"$EDITOR\" ]] && return 0" :>
            [kind |-> "bail", on |-> TRUE, neg |-> FALSE, test |-> "[[ -n \"$EDITOR\" ]]"] @@
        "[[ -n \"$EDITOR\" ]]" :>
            [kind |-> "cond", on |-> TRUE, neg |-> FALSE, test |-> "[[ -n \"$EDITOR\" ]]"] @@
        "[[ -n \"$nvim\" ]] || return 0" :>
            [kind |-> "bail", on |-> FALSE, neg |-> FALSE, test |-> "[[ -n \"$nvim\" ]]"] @@
        "[[ -n \"$nvim\" ]] && return 0" :>
            [kind |-> "bail", on |-> TRUE, neg |-> FALSE, test |-> "[[ -n \"$nvim\" ]]"] @@
        "[[ -n \"$nvim\" ]]" :>
            [kind |-> "cond", on |-> TRUE, neg |-> FALSE, test |-> "[[ -n \"$nvim\" ]]"] @@
        "[[ -f EDITOR ]] || return 0" :>
            [kind |-> "bail", on |-> FALSE, neg |-> FALSE, test |-> "[[ -f EDITOR ]]"] @@
        "[[ -f EDITOR ]] && return 0" :>
            [kind |-> "bail", on |-> TRUE, neg |-> FALSE, test |-> "[[ -f EDITOR ]]"] @@
        "[[ -f EDITOR ]]" :>
            [kind |-> "cond", on |-> TRUE, neg |-> FALSE, test |-> "[[ -f EDITOR ]]"] @@
        "[[ -f nvim ]] || return 0" :>
            [kind |-> "bail", on |-> FALSE, neg |-> FALSE, test |-> "[[ -f nvim ]]"] @@
        "[[ -f nvim ]] && return 0" :>
            [kind |-> "bail", on |-> TRUE, neg |-> FALSE, test |-> "[[ -f nvim ]]"] @@
        "[[ -f nvim ]]" :>
            [kind |-> "cond", on |-> TRUE, neg |-> FALSE, test |-> "[[ -f nvim ]]"] @@
        "[[ -d EDITOR ]] || return 0" :>
            [kind |-> "bail", on |-> FALSE, neg |-> FALSE, test |-> "[[ -d EDITOR ]]"] @@
        "[[ -d EDITOR ]] && return 0" :>
            [kind |-> "bail", on |-> TRUE, neg |-> FALSE, test |-> "[[ -d EDITOR ]]"] @@
        "[[ -d EDITOR ]]" :>
            [kind |-> "cond", on |-> TRUE, neg |-> FALSE, test |-> "[[ -d EDITOR ]]"] @@
        "[[ -d nvim ]] || return 0" :>
            [kind |-> "bail", on |-> FALSE, neg |-> FALSE, test |-> "[[ -d nvim ]]"] @@
        "[[ -d nvim ]] && return 0" :>
            [kind |-> "bail", on |-> TRUE, neg |-> FALSE, test |-> "[[ -d nvim ]]"] @@
        "[[ -d nvim ]]" :>
            [kind |-> "cond", on |-> TRUE, neg |-> FALSE, test |-> "[[ -d nvim ]]"] @@
        "[[ \"$TERM\" == \"xterm\" ]] || return 0" :>
            [kind |-> "bail", on |-> FALSE, neg |-> FALSE, test |-> "[[ \"$TERM\" == \"xterm\" ]]"] @@
        "[[ \"$TERM\" == \"xterm\" ]] && return 0" :>
            [kind |-> "bail", on |-> TRUE, neg |-> FALSE, test |-> "[[ \"$TERM\" == \"xterm\" ]]"] @@
        "[[ \"$TERM\" == \"xterm\" ]]" :>
            [kind |-> "cond", on |-> TRUE, neg |-> FALSE, test |-> "[[ \"$TERM\" == \"xterm\" ]]"] @@
        "[[ \"$EDITOR\" == \"vi\" ]] || return 0" :>
            [kind |-> "bail", on |-> FALSE, neg |-> FALSE, test |-> "[[ \"$EDITOR\" == \"vi\" ]]"] @@
        "[[ \"$EDITOR\" == \"vi\" ]] && return 0" :>
            [kind |-> "bail", on |-> TRUE, neg |-> FALSE, test |-> "[[ \"$EDITOR\" == \"vi\" ]]"] @@
        "[[ \"$EDITOR\" == \"vi\" ]]" :>
            [kind |-> "cond", on |-> TRUE, neg |-> FALSE, test |-> "[[ \"$EDITOR\" == \"vi\" ]]"] @@
        "[[ \"$TERM\" != \"xterm\" ]] || return 0" :>
            [kind |-> "bail", on |-> FALSE, neg |-> TRUE, test |-> "[[ \"$TERM\" == \"xterm\" ]]"] @@
        "[[ \"$TERM\" != \"xterm\" ]] && return 0" :>
            [kind |-> "bail", on |-> TRUE, neg |-> TRUE, test |-> "[[ \"$TERM\" == \"xterm\" ]]"] @@
        "[[ \"$TERM\" != \"xterm\" ]]" :>
            [kind |-> "cond", on |-> TRUE, neg |-> TRUE, test |-> "[[ \"$TERM\" == \"xterm\" ]]"] @@
        "[[ \"$EDITOR\" != \"vi\" ]] || return 0" :>
            [kind |-> "bail", on |-> FALSE, neg |-> TRUE, test |-> "[[ \"$EDITOR\" == \"vi\" ]]"] @@
        "[[ \"$EDITOR\" != \"vi\" ]] && return 0" :>
            [kind |-> "bail", on |-> TRUE, neg |-> TRUE, test |-> "[[ \"$EDITOR\" == \"vi\" ]]"] @@
        "[[ \"$EDITOR\" != \"vi\" ]]" :>
            [kind |-> "cond", on |-> TRUE, neg |-> TRUE, test |-> "[[ \"$EDITOR\" == \"vi\" ]]"]
      ),
      pwsh |-> (
        "if (-not [Environment]::UserInteractive) { return }" :>
            [kind |-> "bail", on |-> TRUE, neg |-> TRUE, test |-> "[Environment]::UserInteractive"] @@
        "if ([Environment]::UserInteractive) { return }" :>
            [kind |-> "bail", on |-> TRUE, neg |-> FALSE, test |-> "[Environment]::UserInteractive"] @@
        "[Environment]::UserInteractive" :>
            [kind |-> "cond", on |-> TRUE, neg |-> FALSE, test |-> "[Environment]::UserInteractive"] @@
        "if (-not (Get-Command 'EDITOR' -ErrorAction SilentlyContinue)) { return }" :>
            [kind |-> "bail", on |-> TRUE, neg |-> TRUE, test |-> "Get-Command 'EDITOR' -ErrorAction SilentlyContinue"] @@
        "if ((Get-Command 'EDITOR' -ErrorAction SilentlyContinue)) { return }" :>
            [kind |-> "bail", on |-> TRUE, neg |-> FALSE, test |-> "Get-Command 'EDITOR' -ErrorAction SilentlyContinue"] @@
        "(Get-Command 'EDITOR' -ErrorAction SilentlyContinue)" :>
            [kind |-> "cond", on |-> TRUE, neg |-> FALSE, test |-> "Get-Command 'EDITOR' -ErrorAction SilentlyContinue"] @@
        "if (-not (Get-Command 'nvim' -ErrorAction SilentlyContinue)) { return }" :>
            [kind |-> "bail", on |-> TRUE, neg |-> TRUE, test |-> "Get-Command 'nvim' -ErrorAction SilentlyContinue"] @@
        "if ((Get-Command 'nvim' -ErrorAction SilentlyContinue)) { return }" :>
            [kind |-> "bail", on |-> TRUE, neg |-> FALSE, test |-> "Get-Command 'nvim' -ErrorAction SilentlyContinue"] @@
        "(Get-Command 'nvim' -ErrorAction SilentlyContinue)" :>
            [kind |-> "cond", on |-> TRUE, neg |-> FALSE, test |-> "Get-Command 'nvim' -ErrorAction SilentlyContinue"] @@
        "if ($env:EDITOR) { return }" :>
            [kind |-> "bail", on |-> TRUE, neg |-> FALSE, test |-> "$env:EDITOR"] @@
        "if ((-not $env:EDITOR)) { return }" :>
            [kind |-> "bail", on |-> TRUE, neg |-> TRUE, test |-> "$env:EDITOR"] @@
        "(-not $env:EDITOR)" :>
            [kind |-> "cond", on |-> TRUE, neg |-> TRUE, test |-> "$env:EDITOR"] @@
        "if ($env:nvim) { return }" :>
            [kind |-> "bail", on |-> TRUE, neg |-> FALSE, test |-> "$env:nvim"] @@
        "if ((-not $env:nvim)) { return }" :>
            [kind |-> "bail", on |-> TRUE, neg |-> TRUE, test |-> "$env:nvim"] @@
        "(-not $env:nvim)" :>
            [kind |-> "cond", on |-> TRUE, neg |-> TRUE, test |-> "$env:nvim"] @@
        "if (-not $env:EDITOR) { return }" :>
            [kind |-> "bail", on |-> TRUE, neg |-> TRUE, test |-> "$env:EDITOR"] @@
        "if (($env:EDITOR)) { return }" :>
            [kind |-> "bail", on |-> TRUE, neg |-> FALSE, test |-> "$env:EDITOR"] @@
        "($env:EDITOR)" :>
            [kind |-> "cond", on |-> TRUE, neg |-> FALSE, test |-> "$env:EDITOR"] @@
        "if (-not $env:nvim) { return }" :>
            [kind |-> "bail", on |-> TRUE, neg |-> TRUE, test |-> "$env:nvim"] @@
        "if (($env:nvim)) { return }" :>
            [kind |-> "bail", on |-> TRUE, neg |-> FALSE, test |-> "$env:nvim"] @@
        "($env:nvim)" :>
            [kind |-> "cond", on |-> TRUE, neg |-> FALSE, test |-> "$env:nvim"] @@
        "if (-not (Test-Path 'EDITOR' -PathType Leaf)) { return }" :>
            [kind |-> "bail", on |-> TRUE, neg |-> TRUE, test |-> "Test-Path 'EDITOR' -PathType Leaf"] @@
        "if ((Test-Path 'EDITOR' -PathType Leaf)) { return }" :>
            [kind |-> "bail", on |-> TRUE, neg |-> FALSE, test |-> "Test-Path 'EDITOR' -PathType Leaf"] @@
        "(Test-Path 'EDITOR' -PathType Leaf)" :>
            [kind |-> "cond", on |-> TRUE, neg |-> FALSE, test |-> "Test-Path 'EDITOR' -PathType Leaf"] @@
        "if (-not (Test-Path 'nvim' -PathType Leaf)) { return }" :>
            [kind |-> "bail", on |-> TRUE, neg |-> TRUE, test |-> "Test-Path 'nvim' -PathType Leaf"] @@
        "if ((Test-Path 'nvim' -PathType Leaf)) { return }" :>
            [kind |-> "bail", on |-> TRUE, neg |-> FALSE, test |-> "Test-Path 'nvim' -PathType Leaf"] @@
        "(Test-Path 'nvim' -PathType Leaf)" :>
            [kind |-> "cond", on |-> TRUE, neg |-> FALSE, test |-> "Test-Path 'nvim' -PathType Leaf"] @@
        "if (-not (Test-Path 'EDITOR' -PathType Container)) { return }" :>
            [kind |-> "bail", on |-> TRUE, neg |-> TRUE, test |-> "Test-Path 'EDITOR' -PathType Container"] @@
        "if ((Test-Path 'EDITOR' -PathType Container)) { return }" :>
            [kind |-> "bail", on |-> TRUE, neg |-> FALSE, test |-> "Test-Path 'EDITOR' -PathType Container"] @@
        "(Test-Path 'EDITOR' -PathType Container)" :>
            [kind |-> "cond", on |-> TRUE, neg |-> FALSE, test |-> "Test-Path 'EDITOR' -PathType Container"] @@
        "if (-not (Test-Path 'nvim' -PathType Container)) { return }" :>
            [kind |-> "bail", on |-> TRUE, neg |-> TRUE, test |-> "Test-Path 'nvim' -PathType Container"] @@
        "if ((Test-Path 'nvim' -PathType Container)) { return }" :>
            [kind |-> "bail", on |-> TRUE, neg |-> FALSE, test |-> "Test-Path 'nvim' -PathType Container"] @@
        "(Test-Path 'nvim' -PathType Container)" :>
            [kind |-> "cond", on |-> TRUE, neg |-> FALSE, test |-> "Test-Path 'nvim' -PathType Container"] @@
        "if ($env:TERM -ne 'xterm') { return }" :>
            [kind |-> "bail", on |-> TRUE, neg |-> TRUE, test |-> "$env:TERM -eq 'xterm'"] @@
        "if (($env:TERM -eq 'xterm')) { return }" :>
            [kind |-> "bail", on |-> TRUE, neg |-> FALSE, test |-> "$env:TERM -eq 'xterm'"] @@
        "($env:TERM -eq 'xterm')" :>
            [kind |-> "cond", on |-> TRUE, neg |-> FALSE, test |-> "$env:TERM -eq 'xterm'"] @@
        "if ($env:EDITOR -ne 'vi') { return }" :>
            [kind |-> "bail", on |-> TRUE, neg |-> TRUE, test |-> "$env:EDITOR -eq 'vi'"] @@
        "if (($env:EDITOR -eq 'vi')) { return }" :>
            [kind |-> "bail", on |-> TRUE, neg |-> FALSE, test |-> "$env:EDITOR -eq 'vi'"] @@
        "($env:EDITOR -eq 'vi')" :>
            [kind |-> "cond", on |-> TRUE, neg |-> FALSE, test |-> "$env:EDITOR -eq 'vi'"] @@
        "if ($env:TERM -eq 'xterm') { return }" :>
            [kind |-> "bail", on |-> TRUE, neg |-> FALSE, test |-> "$env:TERM -eq 'xterm'"] @@
        "if (($env:TERM -ne 'xterm')) { return }" :>
            [kind |-> "bail", on |-> TRUE, neg |-> TRUE, test |-> "$env:TERM -eq 'xterm'"] @@
        "($env:TERM -ne 'xterm')" :>
            [kind |-> "cond", on |-> TRUE, neg |-> TRUE, test |-> "$env:TERM -eq 'xterm'"] @@
        "if ($env:EDITOR -eq 'vi') { return }" :>
            [kind |-> "bail", on |-> TRUE, neg |-> FALSE, test |-> "$env:EDITOR -eq 'vi'"] @@
        "if (($env:EDITOR -ne 'vi')) { return }" :>
            [kind |-> "bail", on |-> TRUE, neg |-> TRUE, test |-> "$env:EDITOR -eq 'vi'"] @@
        "($env:EDITOR -ne 'vi')" :>
            [kind |-> "cond", on |-> TRUE, neg |-> TRUE, test |-> "$env:EDITOR -eq 'vi'"]
      ) ]

Meaning(line, shell) ==
    IF line \in DOMAIN LineMeaning[shell] THEN LineMeaning[shell][line]
    ELSE [kind |-> "unknown", on |-> FALSE, neg |-> FALSE, test |-> line]

\* the value of a line's expression when the tests come out as tr says
Value(m, tr) == tr[m.test] # m.neg

\* the bail line returns early
Returns(m, tr) == Value(m, tr) = m.on

\* C14: for every registered guard G and every shell, the line
\* translate_guard({not: G}) returns early exactly when the expression
\* translate_guard_condition(G) is true, and the line translate_guard(G)
\* returns early exactly when that expression is false.
C14_BailConditionDuality ==
    glines # Pending =>
        /\ glines.bail.exc = "None" /\ glines.not_bail.exc = "None" /\ glines.cond.exc = "None"
        /\ LET b == Meaning(glines.bail.val, gshell)
               nb == Meaning(glines.not_bail.val, gshell)
               c == Meaning(glines.cond.val, gshell)
           IN /\ b.kind = "bail" /\ nb.kind = "bail" /\ c.kind = "cond"
              /\ \A tr \in [{b.test, nb.test, c.test} -> BOOLEAN] :
                    /\ Returns(nb, tr) <=> Value(c, tr)
                    /\ Returns(b, tr) <=> ~Value(c, tr)

\* env_not_set was translated for pwsh, where the bail line tests the
\* variable and the condition negates it
C14_Witness ==
    /\ glines # Pending
    /\ gguard = DictGuard("env_not_set", Scalar("EDITOR")) /\ gshell = "pwsh"
    /\ glines.bail.val = "if ($env:EDITOR) { return }"
    /\ glines.cond.val = "(-not $env:EDITOR)"
    /\ glines.not_bail.val = "if ((-not $env:EDITOR)) { return }"

-----------------------------------------------------------------------------
(* Properties of body rendering *)

\* the entry of a body mapping that applies to a shell: the shell's own
\* entry, else the shared entry, else the empty text
ChosenEntry(body_section, shell) ==
    IF shell \in DOMAIN body_section THEN body_section[shell]
    ELSE IF "shared" \in DOMAIN body_section THEN body_section["shared"]
    ELSE <<"">>

\* the number of lines of a function's text before its body, and after it
FunctionLinesBefore(func, shell) ==
    1 + (IF "usage" \in DOMAIN func THEN 3 ELSE 1) + 1 + (IF shell = "zsh" THEN 0 ELSE 1)

FunctionLinesAfter(shell) == IF shell = "zsh" THEN 0 ELSE 1

\* the number of lines of a module's text before its body constructs
ModuleLinesBefore(mod) ==
    CommentLines(mod) + 1
    + (IF DeclaredGuards(mod) # <<>> THEN Len(DeclaredGuards(mod)) + 1 ELSE 0)

\* the lines of a text from line number from on, leaving out the last
\* `after` lines
Region(text, from, after) == SubSeq(text, from, Len(text) - after)

\* a module whose only body key is body
BodyOnlyModule(mod) ==
    /\ "body" \in DOMAIN mod
    /\ DOMAIN mod \subseteq {"name", "prefix", "description", "body", "guard", "guards"}

\* C15: for a function or module body mapping and every shell, the rendered
\* body is the shell's own entry when that key is present, else the shared
\* entry when present, else empty: in a function the lines of the entry
\* (without trailing newlines) inside the function wrapper, bare for zsh; in
\* a module the lines of the entry after the header and guards, none for an
\* empty entry.
C15_BodyResolution ==
    \A i \in 1..Len(rendered) :
        LET shell == SHELLS[i]
            text == rendered[i].val
        IN /\ (rkind = "functions" /\ "body" \in DOMAIN ritem /\ "predicate" \notin DOMAIN ritem) =>
                LET entry == RStripNewlines(ChosenEntry(ritem["body"], shell))
                IN /\ rendered[i].exc = "None"
                   /\ Region(text, FunctionLinesBefore(ritem, shell) + 1, FunctionLinesAfter(shell))
                        = IF shell = "zsh" THEN entry
                          ELSE [j \in 1..Len(entry) |-> Indent(entry[j])]
           /\ (rkind = "modules" /\ BodyOnlyModule(ritem)) =>
                LET entry == RStripNewlines(ChosenEntry(ritem["body"], shell))
                IN /\ rendered[i].exc = "None"
                   /\ Region(text, ModuleLinesBefore(ritem) + 1, 0)
                        = IF entry = <<"">> THEN <<>> ELSE entry

\* a function whose body has a fish entry and a different shared entry was
\* generated for all shells: fish got its own entry, bash the shared one
C15_Witness ==
    /\ rkind = "functions" /\ Len(rendered) = 4
    /\ "predicate" \notin DOMAIN ritem /\ "body" \in DOMAIN ritem
    /\ DOMAIN ritem["body"] = {"fish", "shared"}
    /\ ritem["body"]["fish"] = <<"echo fish">>
    /\ ritem["body"]["shared"] = <<"echo shared", "">>
    /\ rendered[1].val = <<HEADER, "# d", "", "function f", "    echo fish", "end">>
    /\ rendered[2].val = <<HEADER, "# d", "", "echo shared">>
    /\ rendered[3].val = <<HEADER, "# d", "", "f() {", "    echo shared", "}">>

\* a module whose body has only a shared entry was generated for all shells
C15_WitnessModule ==
    /\ rkind = "modules" /\ Len(rendered) = 4 /\ BodyOnlyModule(ritem)
    /\ DOMAIN ritem["body"] = {"shared"}
    /\ \A i \in 1..4 : rendered[i].val[Len(rendered[i].val)] = "echo shared"

\* the lines one body construct of a module renders to
LinesOf(mod, key, shell) == ConstructLines(mod, shell)[key].val

\* the lines of the conditional block of a module, none without one
BlockOf(mod, shell) ==
    IF "conditional" \in DOMAIN mod
    THEN _render_conditional(mod["conditional"], shell).val ELSE <<>>

\* C16: for every module and shell, the text of generate_module after the
\* header and guards is the lines of env, then paths, aliases, tool,
\* source_file, eval_command and body, each for the keys the module carries,
\* followed by the conditional block: every key is rendered and none is out
\* of order.
C16_ConstructOrder ==
    rkind = "modules" =>
        \A i \in 1..Len(rendered) :
            rendered[i].exc = "None" =>
                LET shell == SHELLS[i]
                IN Region(rendered[i].val, ModuleLinesBefore(ritem) + 1, 0)
                    = LinesOf(ritem, "env", shell) \o LinesOf(ritem, "paths", shell)
                      \o LinesOf(ritem, "aliases", shell) \o LinesOf(ritem, "tool", shell)
                      \o LinesOf(ritem, "source_file", shell)
                      \o LinesOf(ritem, "eval_command", shell)
                      \o LinesOf(ritem, "body", shell) \o BlockOf(ritem, shell)

\* a module with all seven body keys and a conditional was generated for all
\* shells, each key giving at least one line; the bash text ends with the
\* body line and the block
C16_Witness ==
    /\ rkind = "modules" /\ Len(rendered) = 4
    /\ Constructs \cup {"conditional"} \subseteq DOMAIN ritem
    /\ \A i \in 1..4 :
        /\ rendered[i].exc = "None"
        /\ \A k \in Constructs : LinesOf(ritem, k, SHELLS[i]) # <<>>
    /\ LET text == rendered[3].val
       IN /\ text[4] = "export EDITOR=\"vi\""
          /\ text[Len(text) - Len(BlockOf(ritem, "bash"))] = "true"
          /\ text[Len(text)] = "fi"

-----------------------------------------------------------------------------
(* Properties of the conditional block *)

\* the line that opens an if block on a condition
OpeningLine(cond, shell) ==
    IF shell = "fish" THEN "if " \o cond
    ELSE IF shell = "pwsh" THEN "if (" \o cond \o ") {"
    ELSE "if " \o cond \o "; then"

\* the header of a later branch: the elif form for an elif branch, the else
\* form for an else branch
LaterHeader(branch, shell) ==
    IF "elif" \in DOMAIN branch
    THEN LET cond == translate_guard_condition(branch["elif"], shell).val
         IN IF shell = "fish" THEN "else if " \o cond
            ELSE IF shell = "pwsh" THEN "} elseif (" \o cond \o ") {"
            ELSE "elif " \o cond \o "; then"
    ELSE IF shell = "pwsh" THEN "} else {" ELSE "else"

\* the body lines of a branch, indented one level
IndentedBody(branch, shell) ==
    LET body_lines == _render_body_lines(branch, shell).val
    IN [j \in 1..Len(body_lines) |-> Indent(body_lines[j])]

\* the block a conditional stands for: the opening if line, then per branch
\* its header and indented body, then the terminator
ExpectedBlock(conditional, shell) ==
    LET items == conditional.items
    IN <<OpeningLine(translate_guard_condition(items[1].d["if"], shell).val, shell)>>
       \o IndentedBody(items[1].d, shell)
       \o FlattenSeq([j \in 1..(Len(items) - 1) |->
                <<LaterHeader(items[j + 1].d, shell)>> \o IndentedBody(items[j + 1].d, shell)])
       \o <<BlockEnd(shell)>>

\* the guards the drawn conditionals test
ConditionGuards ==
    UNION {{b.d[k] : k \in {"if", "elif"} \cap DOMAIN b.d} :
                b \in RenderFirstBranches \cup RenderLaterBranches}

\* the lines that open an if block on one of those guards
OpeningLines(shell) ==
    {OpeningLine(translate_guard_condition(g, shell).val, shell) : g \in ConditionGuards}

\* a module that carries a conditional and no body construct
ConditionalOnlyModule(mod) ==
    DOMAIN mod = {"name", "prefix", "description", "conditional"}

\* C17: for every conditional accepted by validation and every shell, the
\* block has exactly one block-opening if line, its first line; then per
\* branch in declared order one header (the elif form for an elif branch,
\* else for an else branch) and the branch's body lines indented one level;
\* and the terminator as its last line.
C17_ConditionalStructure ==
    (Accepted /\ rkind = "modules" /\ ConditionalOnlyModule(ritem)) =>
        \A i \in 1..Len(rendered) :
            LET shell == SHELLS[i]
                block == Region(rendered[i].val, ModuleLinesBefore(ritem) + 1, 0)
            IN /\ rendered[i].exc = "None"
               /\ block = ExpectedBlock(ritem["conditional"], shell)
               /\ {p \in 1..Len(block) : block[p] \in OpeningLines(shell)} = {1}
               /\ block[Len(block)] = BlockEnd(shell)

-----------------------------------------------------------------------------
(* Properties of generate_all *)

\* main returned 0: generate_all completed
Completed == pc = "done" /\ exit_code = "0"

\* the path the claim names for an item of a list and a shell
ItemPath(kind, item, shell) ==
    get_output_dirs(target)[shell][kind] \o "/"
    \o (IF kind = "functions" THEN item["name"] \o SHELL_FUNC_EXT[shell]
        ELSE item["prefix"] \o "-" \o item["name"] \o SHELL_MODULE_EXT[shell])

\* the text the generator of a list returns for an item and a shell
ItemText(kind, item, shell) ==
    IF kind = "functions" THEN generate_function(item, shell).val
    ELSE generate_module(item, shell).val

\* C18: after generate_all completed on the validated manifest, for every
\* function and every module and every shell the file at the item's path
\* exists and holds exactly what generate_function / generate_module returns
\* for it.
C18_WrittenContent ==
    Completed =>
        \A kind \in ListKeys :
            \A n \in 1..Len(GetList(manifest, kind)) :
                \A s \in 1..Len(SHELLS) :
                    LET item == GetList(manifest, kind)[n]
                        path == ItemPath(kind, item, SHELLS[s])
                    IN /\ path \in DOMAIN out_files
                       /\ out_files[path] = ItemText(kind, item, SHELLS[s])

\* the output directories
OutputDirs == {OutputDirList(target)[i] : i \in 1..Len(OutputDirList(target))}

\* the file names the run generated into a directory
NamesInto(dir) ==
    {JobFilename(Jobs(manifest)[j]) :
        j \in {k \in 1..Len(Jobs(manifest)) :
                get_output_dirs(target)[Jobs(manifest)[k].shell][Jobs(manifest)[k].kind] = dir}}

\* the place of a file name in ascending order
Position(name) == CHOOSE i \in 1..Len(AscendingNames) : AscendingNames[i] = name

\* C19: after generate_all completed, every output directory that received
\* a file holds a .gitignore whose first line is the ledger header and whose
\* other lines are exactly the file names generated into the directory, each
\* once, in ascending order.
C19_LedgerContent ==
    Completed =>
        \A dir \in OutputDirs :
            NamesInto(dir) # {} =>
                /\ (dir \o "/.gitignore") \in DOMAIN out_files
                /\ LET ledger == out_files[dir \o "/.gitignore"]
                       listed == SubSeq(ledger, 2, Len(ledger))
                   IN /\ ledger[1] = "# Generated by generate_shell.py -- DO NOT EDIT"
                      /\ Range(listed) = NamesInto(dir)
                      /\ Len(listed) = Cardinality(NamesInto(dir))
                      /\ \A p, q \in 1..Len(listed) :
                            p < q => Position(listed[p]) < Position(listed[q])

\* C20: when generate_all completed and is run again on the same manifest
\* and target, the directories, the files with their content (generated
\* files and ledgers) and the returned list of paths after the second run
\* are those after the first.
C20_Idempotent ==
    (Completed /\ prev_run.runs > 0) =>
        /\ out_dirs = prev_run.dirs
        /\ DOMAIN out_files = DOMAIN prev_run.files
        /\ \A p \in DOMAIN out_files : out_files[p] = prev_run.files[p]
        /\ generated_files = prev_run.returned

\* a second run completed on a manifest with three functions and three
\* modules, and left the files and ledgers of the first
C20_Witness ==
    /\ Completed /\ prev_run.runs = 1
    /\ Len(GetList(manifest, "functions")) = 3 /\ Len(GetList(manifest, "modules")) = 3
    /\ Len(generated_files) = 24
    /\ \E dir \in OutputDirs : (dir \o "/.gitignore") \in DOMAIN out_files
    /\ out_files = prev_run.files

-----------------------------------------------------------------------------
(* Properties of source resolution *)

\* the paths handed to resolve_sources: the default when none was given
GivenPaths == raw_sources

\* resolve_sources has run
Resolved == pc \notin {"idle", "start"}

\* the path names an existing file
NamesFile(p) ==
    /\ p \in DOMAIN Disk /\ Disk[p].kind = "file"
    /\ p = "shell.yaml" => script_yaml = "file"

\* the path names an existing directory that holds a file shell.yaml
NamesDirWithYaml(p) ==
    p \in DOMAIN Disk /\ Disk[p].kind = "dir" /\ NamesFile(p \o "/shell.yaml")

\* the inputs that resolve, by position
Resolving == {i \in 1..Len(GivenPaths) : NamesFile(GivenPaths[i]) \/ NamesDirWithYaml(GivenPaths[i])}

\* the number of members of a set of positions below position i
Before(positions, i) == Cardinality({j \in positions : j < i})

NothingDone ==
    /\ nloaded = 0 /\ manifest = NoManifest /\ errors = <<>>
    /\ generated_files = <<>> /\ dir_files = NoFiles
    /\ out_dirs = {} /\ out_files = NoFiles

\* C22: when none of the paths handed to resolve_sources (the requested
\* ones, or the default when none was requested) resolves, main has returned
\* 1 with nothing loaded, validated, generated or written; when at least one
\* resolves, main goes on with the resolved sources: it loads them all, in
\* order, and returns 1 only on validation errors.
C22_NoSourcesFatal ==
    Resolved =>
        /\ Resolving = {} => (pc = "done" /\ exit_code = "1" /\ NothingDone)
        /\ Resolving # {} =>
            /\ Len(source_files) = Cardinality(Resolving)
            /\ pc = "merge" => (exit_code = "running" /\ nloaded <= Len(source_files))
            /\ pc \in {"mkdirs", "write", "ledgers"} => nloaded = Len(source_files)
            /\ pc = "done" => nloaded >= 1
            /\ exit_code = "1" => (errors # <<>> /\ nloaded = Len(source_files))
            /\ exit_code = "0" => (errors = <<>> /\ nloaded = Len(source_files))

\* nothing was requested and script_dir/shell.yaml is missing: main returned 1
C22_Witness ==
    /\ stdin = Tty /\ args_sources = <<>> /\ script_yaml = "missing"
    /\ raw_sources = <<DefaultSource>> /\ source_files = <<>>
    /\ pc = "done" /\ exit_code = "1" /\ NothingDone

\* of two requested paths one resolves: main generated from it
C22_WitnessProceeds ==
    /\ args_sources = <<"missing.yaml", "work.yaml">> /\ stdin = Tty
    /\ source_files = <<"work.yaml">>
    /\ Completed /\ out_files # NoFiles

-----------------------------------------------------------------------------
(* Properties of the package-list generator *)

\* a name field of an entry is set: present, not null, not empty, not 'null'
IsSet(entry, key) ==
    key \in DOMAIN entry /\ entry[key] \notin {None, Str(""), Str("null")}

\* the skip list of an entry, as a set
SkipSet(entry) ==
    IF "skip" \in DOMAIN entry THEN Range(entry["skip"]) ELSE {}

\* the field a platform's names are taken from: apt for raspi
NameField(platform) == IF platform = "raspi" THEN "apt" ELSE platform

\* the line a name is emitted as
NameLine(platform, name) ==
    IF platform = "macos" THEN "brew \"" \o name \o "\"" ELSE name

\* the lines of a platform's text after its heading
Emitted(text, platform) ==
    SubSeq(text, (IF platform = "macos" THEN 2 ELSE 6) + 1, Len(text))

\* what an entry contributes when its skip list is looked up under skip_key:
\* nothing when skipped, else the platform's field, else pkg, else nothing
Contribution(entry, platform, skip_key) ==
    IF skip_key \in SkipSet(entry) THEN <<>>
    ELSE IF IsSet(entry, NameField(platform))
    THEN <<NameLine(platform, entry[NameField(platform)].s)>>
    ELSE IF IsSet(entry, "pkg") THEN <<NameLine(platform, entry["pkg"].s)>>
    ELSE <<>>

\* the texts in which the emitted lines are those of the cli_tools entries
ToolsOnly(platform) == platform # "macos" \/ "macos_apps" \notin DOMAIN ritem

\* C23 as stated: an entry is omitted for a platform when its skip list
\* contains that platform; otherwise its platform field is emitted when set
\* (the apt field for raspi), else pkg when set, else nothing.
C23_Original ==
    rkind = "packages" =>
        \A i \in 1..Len(rendered) :
            ToolsOnly(PLATFORMS[i]) =>
                Emitted(rendered[i].val, PLATFORMS[i])
                    = FlattenSeq([n \in 1..Len(GetTools(ritem, "cli_tools")) |->
                        Contribution(GetTools(ritem, "cli_tools")[n], PLATFORMS[i],
                                     PLATFORMS[i])])

\* C23 amended: the skip list is looked up under the same key as the name,
\* apt for raspi: an entry is omitted for a platform when its skip list
\* contains that key; otherwise the field of that key is emitted when set,
\* else pkg when set, else nothing.
C23_PackageNames ==
    rkind = "packages" =>
        \A i \in 1..Len(rendered) :
            ToolsOnly(PLATFORMS[i]) =>
                Emitted(rendered[i].val, PLATFORMS[i])
                    = FlattenSeq([n \in 1..Len(GetTools(ritem, "cli_tools")) |->
                        Contribution(GetTools(ritem, "cli_tools")[n], PLATFORMS[i],
                                     NameField(PLATFORMS[i]))])

\* an entry with a macos name, a null apt field and the shorthand was
\* generated for all platforms: the macos name in the Brewfile, the shorthand
\* in the other lists
C23_Witness ==
    /\ rkind = "packages" /\ Len(rendered) = 6
    /\ ritem = [cli_tools |-> <<[name |-> Str("t"), macos |-> Str("t-macos"), apt |-> None,
                                 pkg |-> Str("t")]>>]
    /\ Emitted(rendered[1].val, "macos") = <<"brew \"t-macos\"">>
    /\ Emitted(rendered[3].val, "apt") = <<"t">>
    /\ Emitted(rendered[6].val, "raspi") = <<"t">>

\* an entry skipped for apt was generated for raspi
C23_WitnessSkip ==
    /\ rkind = "packages" /\ Len(rendered) = 6
    /\ Len(GetTools(ritem, "cli_tools")) = 1
    /\ SkipSet(ritem["cli_tools"][1]) = {"apt"}
    /\ IsSet(ritem["cli_tools"][1], "apt")
    /\ Emitted(rendered[6].val, "raspi") = <<>>

-----------------------------------------------------------------------------
(* Merging the empty manifest *)

\* merge_manifests(base, {}) has been called
MergedWithEmpty == mstep = "merged" /\ extra = NoManifest

\* every item of both lists of base has a name
AllNamed == ~MergeRaises(base, NoManifest)

\* no list of base repeats a name
NoRepeats == \A key \in ListKeys : Distinct(GetList(base, key))

C24_WitnessRepeat ==
    /\ MergedWithEmpty /\ merged.exc = "None"
    /\ GetList(base, "functions")
        = <<[name |-> "f", description |-> "d1"], [name |-> "g", description |-> "d1"],
            [name |-> "f", description |-> "d2"]>>
    /\ merged.val["functions"]
        = <<[name |-> "f", description |-> "d2"], [name |-> "g", description |-> "d1"]>>

-----------------------------------------------------------------------------
(* Validation collects every violation *)

\* the check a guard names (looking through 'not')
RECURSIVE CheckOf(_)
CheckOf(g) ==
    IF IsNot(g) THEN CheckOf(g.value)
    ELSE IF g.t = "str" THEN g.s ELSE IF g.t = "dict" THEN g.key ELSE "None"

\* the guards written in a module: its guard / guards entries and the 'if' /
\* 'elif' of every branch of its conditional
ModuleGuards(mod) ==
    {_collect_guards(mod)[i] : i \in 1..Len(_collect_guards(mod))}
    \cup (IF "conditional" \in DOMAIN mod /\ mod["conditional"].t = "list"
          THEN LET bs == mod["conditional"].items
               IN UNION {{bs[i].d[k] : k \in {"if", "elif"} \cap DOMAIN bs[i].d} :
                            i \in {j \in 1..Len(bs) : bs[j].t = "dict"}}
          ELSE {})

BadEnv(env) ==
    \/ env.t # "dict"
    \/ \E j \in 1..Len(env.entries) :
        env.entries[j].ktype # "str" \/ env.entries[j].vtype \notin {"str", "int", "float"}

BadSourceFile(sf) ==
    /\ sf.t # "str"
    /\ ~(sf.t = "list" /\ \A j \in 1..Len(sf.items) : sf.items[j].t = "str")

\* the messages of each check
EnvMessages ==
    {"'env' must be a dict of VAR: value pairs", "env key must be a string, got",
     "env value must be a string or number"}
SourceFileMessages ==
    {"source_file list items must be strings", "'source_file' must be a string or list of strings"}
ConditionalMessages ==
    {"'conditional' must be a non-empty list", "first conditional branch must have an 'if' key",
     "branch must be a dict", "branch must have 'elif' or 'else' key",
     "branch cannot have both 'elif' and 'else'",
     "conditional branch must have at least one body key",
     "unknown string guard", "unknown guard type", "invalid guard type"}
GuardMessages == {"unknown string guard", "unknown guard type", "invalid guard type"}

\* an error of the item with context ctx carries one of the messages
Reports(ctx, messages) ==
    \E j \in 1..Len(verrors) : verrors[j].ctx = ctx /\ verrors[j].msg \in messages

\* an error anywhere under the item names the unknown check of guard g
ReportsGuard(g) ==
    \E j \in 1..Len(verrors) : verrors[j].msg \in GuardMessages /\ verrors[j].arg = CheckOf(g)

\* the checks of a module with a name other than those on its guards
ModuleChecksReported(mod) ==
    LET ctx == "module '" \o mod["name"] \o "'"
    IN /\ \A field \in {"prefix", "description"} \ DOMAIN mod :
            \E j \in 1..Len(verrors) : verrors[j].ctx = ctx /\ Mentions(verrors[j], field)
       /\ (~\E k \in BODY_KEYS : k \in DOMAIN mod) => Reports(ctx, {"must have at least one of"})
       /\ ("env" \in DOMAIN mod /\ BadEnv(mod["env"])) => Reports(ctx, EnvMessages)
       /\ ("source_file" \in DOMAIN mod /\ BadSourceFile(mod["source_file"]))
            => Reports(ctx, SourceFileMessages)
       /\ ("eval_command" \in DOMAIN mod /\ mod["eval_command"].t # "str")
            => Reports(ctx, {"'eval_command' must be a string"})
       /\ ("conditional" \in DOMAIN mod /\ ~ConditionalShapeOk(mod["conditional"]))
            => \E j \in 1..Len(verrors) : verrors[j].msg \in ConditionalMessages

\* the checks of a function with a name
FunctionChecksReported(func) ==
    LET ctx == "function '" \o func["name"] \o "'"
    IN /\ "description" \notin DOMAIN func =>
            \E j \in 1..Len(verrors) : verrors[j].ctx = ctx /\ Mentions(verrors[j], "description")
       /\ ({"predicate", "body"} \cap DOMAIN func = {})
            => Reports(ctx, {"must have either 'predicate' or 'body'"})
       /\ ("predicate" \in DOMAIN func /\ func["predicate"] \notin DOMAIN PREDICATES)
            => Reports(ctx, {"unknown predicate"})

\* an item without a name is reported at its list position
NamelessReported ==
    \A key \in ListKeys : \A i \in 1..Len(GetList(vmanifest, key)) :
        "name" \notin DOMAIN GetList(vmanifest, key)[i] =>
            \E j \in 1..Len(verrors) :
                /\ Mentions(verrors[j], "name")
                /\ verrors[j].ctx = key \o "[" \o ToString(i - 1) \o "]"

\* every check but the one on guards is reported whatever else is wrong
OtherChecksCollected ==
    vstep = "validated" =>
        /\ NamelessReported
        /\ \A func \in Items("functions") : "name" \in DOMAIN func => FunctionChecksReported(func)
        /\ \A mod \in Items("modules") : "name" \in DOMAIN mod => ModuleChecksReported(mod)

\* C25: validate_manifest reports every item without a name at its position
\* and, on every item that has a name, every violated check whatever else is
\* wrong in the manifest: a missing prefix or description, no body key, a bad
\* env, source_file, eval_command or conditional, an unknown predicate, and
\* every guard written in the module that names an unknown check.
C25_CollectsEveryViolation ==
    vstep = "validated" =>
        /\ OtherChecksCollected
        /\ \A mod \in Items("modules") :
            "name" \in DOMAIN mod =>
                \A g \in ModuleGuards(mod) : NamesUnknownCheck(g) => ReportsGuard(g)

-----------------------------------------------------------------------------
(* The head of a generated text *)

\* the text has the header as line 1 and the description comment as line 2
HeadLines(text, item) ==
    /\ Len(text) >= 2
    /\ text[1] = HEADER
    /\ text[2] = "# " \o item["description"]

\* C26: for every shell and every item accepted by validation, the generated
\* text has the header line as line 1 and the comment line with the item's
\* description as line 2, ahead of every other line.
C26_HeadLines ==
    Accepted =>
        \A i \in 1..Len(rendered) :
            rendered[i].exc = "None" => HeadLines(rendered[i].val, ritem)

\* the same for every text but that of a predicate function for zsh
HeadLinesButZshPredicate ==
    Accepted =>
        \A i \in 1..Len(rendered) :
            (/\ rendered[i].exc = "None"
             /\ ~(rkind = "functions" /\ "predicate" \in DOMAIN ritem /\ SHELLS[i] = "zsh"))
                => HeadLines(rendered[i].val, ritem)

-----------------------------------------------------------------------------
(* Precedence between the sources of standard input and the arguments *)

\* the paths named on standard input, in line order
StdinNamed ==
    IF stdin.tty THEN <<>>
    ELSE SelectSeq([i \in 1..Len(stdin.lines) |-> stdin.lines[i].text], LAMBDA p : p # "")

\* the manifests main loads, lowest precedence first: those named on standard
\* input, then the positional ones; script_dir/shell.yaml when none is named
Precedence ==
    LET named == StdinNamed \o args_sources
    IN SelectSeq(IF named = <<>> THEN <<DefaultSource>> ELSE named, is_file)

\* the positions in Precedence of the sources that define name n under kind
Defining(kind, n) ==
    {i \in 1..Len(Precedence) :
        \E j \in 1..Len(GetList(load_manifest(Precedence[i]), kind)) :
            GetList(load_manifest(Precedence[i]), kind)[j].name = n}

\* the definition of n that wins: the last one of the last source defining it
Winner(kind, n) ==
    LET last == CHOOSE i \in Defining(kind, n) : \A j \in Defining(kind, n) : j <= i
        items == GetList(load_manifest(Precedence[last]), kind)
    IN items[LastIdx(items, n)]

\* C27: once main has generated, every function and module name defined by a
\* loaded source is generated from the definition of the last source defining
\* it, the sources taken in the order standard input first, then the
\* positional arguments, each group in its given order: a positional
\* definition wins over one from standard input, and the right-most positional
\* one over the others.
C27_SourcePrecedence ==
    Completed =>
        \A kind \in ListKeys :
            \A n \in {"f", "g", "m", "n"} :
                Defining(kind, n) # {} =>
                    /\ Cardinality({i \in 1..Len(manifest[kind]) : manifest[kind][i].name = n}) = 1
                    /\ Winner(kind, n) \in Range(manifest[kind])
                    /\ \A s \in 1..Len(SHELLS) :
                        /\ ItemPath(kind, Winner(kind, n), SHELLS[s]) \in DOMAIN out_files
                        /\ out_files[ItemPath(kind, Winner(kind, n), SHELLS[s])]
                            = ItemText(kind, Winner(kind, n), SHELLS[s])

\* work.yaml came in on standard input and shell.yaml as an argument: both
\* define function f and module m, and shell.yaml's definitions were generated
C27_Witness ==
    /\ Completed
    /\ stdin = Piped(<<Line("  ", "work.yaml", " \n")>>) /\ args_sources = <<"shell.yaml">>
    /\ source_files = <<"work.yaml", "shell.yaml">>
    /\ manifest["functions"][1] = ManifestA["functions"][1]
    /\ manifest["modules"][1] = ManifestA["modules"][1]
    /\ out_files[ItemPath("functions", ManifestA["functions"][1], "bash")]
        = generate_function(ManifestA["functions"][1], "bash").val
    /\ ItemPath("modules", ManifestB["modules"][3], "bash") \notin DOMAIN out_files

\* two positional sources: the right-most one's definitions were generated
C27_WitnessRightmost ==
    /\ Completed
    /\ stdin = Tty /\ args_sources = <<"shell.yaml", "work.yaml">>
    /\ manifest["functions"][1] = ManifestB["functions"][3]
    /\ out_files[ItemPath("modules", ManifestB["modules"][3], "zsh")]
        = generate_module(ManifestB["modules"][3], "zsh").val

-----------------------------------------------------------------------------
(* Ledgers over successive runs *)

\* the file names a ledger lists
Listed(ledger) == Range(SubSeq(ledger, 2, Len(ledger)))

\* C28: whenever a generate_all run has completed, after any earlier runs on
\* the same target with any manifests, every ledger that exists in an output
\* directory lists exactly the file names the latest run wrote into that
\* directory.
C28_LedgersNeverStale ==
    Completed =>
        \A dir \in OutputDirs :
            (dir \o "/.gitignore") \in DOMAIN out_files =>
                Listed(out_files[dir \o "/.gitignore"]) = NamesInto(dir)

\* the same for the directories the latest run wrote a file into
LedgersOfWrittenDirs ==
    Completed =>
        \A dir \in OutputDirs :
            NamesInto(dir) # {} =>
                /\ (dir \o "/.gitignore") \in DOMAIN out_files
                /\ Listed(out_files[dir \o "/.gitignore"]) = NamesInto(dir)

-----------------------------------------------------------------------------
(* The order of the writes of one run *)

\* the number of files a run on the manifest writes
FileCount == 4 * (Len(GetList(manifest, "functions")) + Len(GetList(manifest, "modules")))

\* the path of the k-th file of a run: the functions, then the modules, each
\* item for fish, zsh, bash, pwsh
KthPath(k) ==
    LET n == ((k - 1) \div 4) + 1
        shell == SHELLS[((k - 1) % 4) + 1]
        nf == Len(GetList(manifest, "functions"))
    IN IF n <= nf THEN ItemPath("functions", manifest["functions"][n], shell)
       ELSE ItemPath("modules", manifest["modules"][n - nf], shell)

\* the text of the k-th file of a run
KthText(k) ==
    LET n == ((k - 1) \div 4) + 1
        shell == SHELLS[((k - 1) % 4) + 1]
        nf == Len(GetList(manifest, "functions"))
    IN IF n <= nf THEN ItemText("functions", manifest["functions"][n], shell)
       ELSE ItemText("modules", manifest["modules"][n - nf], shell)

\* the last of the writes so far that went to the path of the k-th
LastWrite(k) ==
    CHOOSE j \in 1..Len(generated_files) :
        /\ KthPath(j) = KthPath(k)
        /\ \A i \in (j + 1)..Len(generated_files) : KthPath(i) # KthPath(k)

\* the ledgers the current run created or changed: prev_run.files is the disk
\* as the run found it
LedgersTouched ==
    {p \in LedgerPaths \cap DOMAIN out_files :
        p \notin DOMAIN prev_run.files \/ out_files[p] # prev_run.files[p]}

\* an exception ended the run
Aborted == pc = "done" /\ exit_code \notin {"0", "1", "running"}

C29_WitnessLedgers ==
    /\ Completed /\ manifest = ManifestA
    /\ Len(generated_files) = 8
    /\ Cardinality(LedgersTouched) = 8

-----------------------------------------------------------------------------
(* The shape of a guard and its template *)

\* the checks without a parameter, and those with the parameters var and value
ZeroArgumentChecks == {"is_tty", "is_interactive"}
TwoArgumentChecks == {"env_equals", "not_env_equals"}

\* the guard has the shape its check's templates expect (looking through 'not')
RECURSIVE ShapeMatches(_)
ShapeMatches(g) ==
    IF IsNot(g) THEN ShapeMatches(g.value)
    ELSE IF g.t = "str" THEN g.s \in ZeroArgumentChecks
    ELSE IF g.t = "dict"
    THEN IF g.key \in ZeroArgumentChecks THEN FALSE
         ELSE IF g.key \in TwoArgumentChecks
         THEN g.value.t = "dict" /\ DOMAIN g.value.d = {"var", "value"}
         ELSE g.key \in DOMAIN GUARDS /\ g.value.t = "scalar"
    ELSE FALSE

\* the template the guard's line is made from
RECURSIVE TemplateOf(_, _, _)
TemplateOf(g, shell, table) ==
    IF IsNot(g) THEN TemplateOf(g.value, shell, GUARD_CONDITIONS)
    ELSE table[CheckOf(g)][SHELL_INDEX[shell]]

\* the guard is a bare string (inside any 'not')
RECURSIVE IsBare(_)
IsBare(g) == IF IsNot(g) THEN IsBare(g.value) ELSE g.t = "str"

\* the placeholders of the templates: {0}, {var}, {value} (the braces of a
\* pwsh block around ' return ' are shell text)
Placeholders == {"0", "var", "value"}

\* the line emitted for the guard is a template with every placeholder
\* substituted: the translation returns, and a bare string, which is emitted
\* as the template stands, has a template without placeholders
FullySubstituted(g, shell) ==
    /\ translate_guard(g, shell).exc = "None"
    /\ IsBare(g) => \A i \in 1..Len(TemplateOf(g, shell, GUARDS)) :
                        ~(/\ TemplateOf(g, shell, GUARDS)[i].k = "ph"
                          /\ TemplateOf(g, shell, GUARDS)[i].s \in Placeholders)

\* C30: in a manifest that validate_manifest accepts, every guard of a module
\* has the shape its check's template expects (a bare string for a check
\* without parameter, a mapping with a scalar for a check with one, a mapping
\* with var and value for env_equals and not_env_equals), and for every shell
\* its guard line is a fully substituted template whose translation returns.
C30_GuardShape ==
    (vstep = "validated" /\ verrors = <<>>) =>
        \A mod \in Items("modules") :
            \A n \in 1..Len(_collect_guards(mod)) :
                /\ ShapeMatches(_collect_guards(mod)[n])
                /\ \A s \in 1..Len(SHELLS) : FullySubstituted(_collect_guards(mod)[n], SHELLS[s])

\* the same for the guards in the shape their template expects
WellShapedGuardsTranslate ==
    (vstep = "validated" /\ verrors = <<>>) =>
        \A mod \in Items("modules") :
            \A n \in 1..Len(_collect_guards(mod)) :
                ShapeMatches(_collect_guards(mod)[n]) =>
                    \A s \in 1..Len(SHELLS) :
                        FullySubstituted(_collect_guards(mod)[n], SHELLS[s])

=============================================================================
